---- MODULE Spec2Model ----
(***************************************************************************)
(* The search aggregation of marvin: Registry.SearchAsync                  *)
(* (internal/search/registry.go) with its provider tasks, its collector    *)
(* and its three output channels, and the search window's consumer loop    *)
(* (SearchWindow.performSearch).                                           *)
(*                                                                         *)
(* A session is one SearchAsync call.  Its goroutines are modelled one     *)
(* action per step between two points where a goroutine can be observed    *)
(* or can block: a select, a channel operation, a call of Provider.Search. *)
(* A send on an unbuffered channel and the receive that takes it are one   *)
(* action.                                                                 *)
(***************************************************************************)
EXTENDS Integers, Sequences, FiniteSets, TLC

\* ------------------------------------------------------------- bounds

\* Providers registered at startup.
NumProviders == 2

\* Sessions the search window can start (performSearch calls with a
\* non-empty query).
MaxSessions == 2

\* Distinct values of Provider.Priority() among the providers.
NumPriorities == 3

\* Providers that exist and can be registered.
NumCandidates == 5

\* RegisterProvider calls on one Registry.
MaxRegistered == 3

\* Keystrokes in the search entry.
MaxKeystrokes == 3

\* Confirmations of the selection (launchSelectedResult calls).
MaxLaunches == 2

\* Calls of selectNextResult, selectPreviousResult and selectResult by the
\* user's keys or by a caller of the package.
MaxSelects == 2

\* The largest index a caller passes to selectResult (the smallest is -1).
MaxIndex == 4

\* Goroutines that call the EventHandler's methods.
NumCallers == 2

\* The callbacks a caller passes (KeyCallback values that are not nil).
NumCallbacks == 2

ProviderIds == 1..NumProviders
Candidates == 1..NumCandidates
Sessions == 1..MaxSessions

\* ---------------------------------------------------------- providers

\* Provider.Priority(): lower is higher priority.
Priority(p) == ((p - 1) % NumPriorities) + 1

\* Provider.Type()
Type(p) == IF p % 2 = 1 THEN "app" ELSE "file"

\* A SearchResult.  Title stands for every field that is not part of the
\* dedup key (Title, Description, Icon, Action): it names the provider
\* that made the result and the result's place in that provider's answer.
MkResult(p, i, type, path) == [Title |-> <<p, i>>, Path |-> path, Type |-> type]

\* What Provider.Search can return for a non-empty query: an error (with a
\* result slice the caller must not use), or a result slice (empty, one
\* result, or three results of which the first and the last have the same
\* Type and Path and the second the same Path under another Type).
\* Different providers can return results with equal keys.
AppA == <<"app", "/a">>
FileA == <<"file", "/a">>
FileB == <<"file", "/b">>

ShapesOf(p) == IF p % 2 = 1 THEN {<<AppA, FileA, AppA>>, <<AppA>>}
                            ELSE {<<AppA, FileB>>, << >>}

SearchOutcomes(p) ==
    {[err |-> TRUE, results |-> <<MkResult(p, 1, "app", "/a")>>]}
    \cup {[err |-> FALSE,
           results |-> [i \in 1..Len(sh) |-> MkResult(p, i, sh[i][1], sh[i][2])]]
          : sh \in ShapesOf(p)}

\* The queries a caller passes.
Queries == {"", "q"}

\* --------------------------------------------------------------- state

VARIABLES
    providers,       \* Registry.providers, as provider ids
    registered,      \* the providers passed to RegisterProvider, in call order
    execution,       \* the last call of ExecuteResult or of a provider's Execute
    entryText,       \* searchInput.Text, as the number of keystrokes that made it
    timerArmed,      \* SearchWindow.timer is running: it fires after searchDelay
    timerC,          \* values waiting in sw.timer.C (a channel of capacity 1)
    loopPc,          \* where the goroutine that ranges over sw.timer.C is
    fires,           \* the text at each firing of the timer, in order
    searches,        \* the text each performSearch call was made with, in order
    show,            \* SearchWindow.show: the window is shown
    launched,        \* the rows whose Action was invoked, in order
    launchCalls,     \* calls of launchSelectedResult
    selectCalls,     \* calls of selectNextResult, selectPreviousResult, selectResult
    sentResults,     \* Registry.sentResults: the keys marked as sent
    query,           \* per session: the query SearchAsync was called with
    spc,             \* per session: where the SearchAsync call itself is
    ctxDone,         \* per session: ctx.Done() is closed
    tpc,             \* per session and provider: where the provider task is
    taskOut,         \* per session and provider: what the task's Search returned,
                     \* and what became of it
    collectorClosed, \* per session: resultCollector is closed
    cpc,             \* per session: where the collector goroutine is
    uniqueResults,   \* per session: the collector's uniqueResults
    resultsClosed,   \* per session: number of close(resultsCh)
    errClosed,       \* per session: number of close(errCh)
    doneClosed,      \* per session: number of close(doneCh)
    receiving,       \* per session: the consumer receives from the three channels
    delivered,       \* per session: the batches received from resultsCh, in order
    errsReceived,    \* per session: the providers whose error was received from errCh
    doneReceived,    \* per session: number of values received from doneCh
    searchCalls,     \* per session and provider: calls of Provider.Search
    canHandleCalls,  \* per session: calls of Provider.CanHandle
    canHandle,       \* per session: the providers whose CanHandle(query) was true
    concurrentCall,  \* another SearchAsync call runs on the same Registry
    resultItems,     \* SearchWindow.resultItems
    resultMap,       \* SearchWindow.resultMap: result key -> index in resultItems
    selectedIndex,   \* SearchWindow.selectedIndex
    resultsList,     \* SearchWindow.resultsList: the objects of the container
    isSelected,      \* the SearchResultItems whose IsSelected is true
    anyResults,      \* per session: anyResults of the session's consumer loop
    resultsByType,   \* per session: resultsByType of the session's consumer loop
    searchPc,        \* where the call of the synchronous Registry.Search is
    searchQuery,     \* the query Search was called with
    searchTask,      \* per provider: where the goroutine Search started for it is
    searchOut,       \* per provider: what p.Search returned to that goroutine
    allResults,      \* allResults of the Search call
    lastErr,         \* lastErr of the Search call: the provider it came from, 0 for nil
    received,        \* received of the Search call
    providerCount,   \* providerCount of the Search call
    searchClosed,    \* resultsCh and errCh of the Search call are closed
    searchRet,       \* what the Search call returned
    mu,              \* EventHandler.mu: the caller that holds it, 0 when unlocked
    hpc,             \* per caller: where its call of an EventHandler method is
    hcallback,       \* per caller: the callback of its RegisterGlobalHotkey call
    hresult,         \* per caller: what its last RegisterGlobalHotkey call returned
    globalHotkeySet, \* EventHandler.globalHotkeySet
    globalHotkeyCallback, \* globalHotkeyCallback, 0 for nil
    hotkeyRef,       \* hotkeyRef of events_darwin is not NULL
    isMonitoring,    \* EventHandler.isMonitoring
    registeredKeys,  \* EventHandler.registeredKeys: key -> callback
    keyCallbacks,    \* the package's keyCallbacks map: key -> callback
    keyEvent         \* the last goKeyEventCallback call: its key, the callback it invoked

syncVars == <<searchPc, searchQuery, searchTask, searchOut, allResults, lastErr,
              received, providerCount, searchClosed, searchRet>>
hotkeyVars == <<mu, hpc, hcallback, hresult, globalHotkeySet, globalHotkeyCallback,
                hotkeyRef, isMonitoring, registeredKeys, keyCallbacks, keyEvent>>
fixedVars == <<providers, registered, syncVars, hotkeyVars>>
entryVars == <<entryText, timerArmed, timerC, loopPc, fires, searches>>
launchVars == <<show, launched, launchCalls, selectCalls>>
regVars == <<fixedVars, execution, entryVars, launchVars>>
registryVars == <<regVars, sentResults, concurrentCall>>
handleVars == <<canHandleCalls, canHandle>>
callVars == <<query, spc, handleVars>>
taskVars == <<tpc, taskOut, searchCalls>>
collectorVars == <<collectorClosed, cpc, uniqueResults>>
chanVars == <<resultsClosed, errClosed, doneClosed>>
consumerVars == <<receiving, delivered, errsReceived, doneReceived>>
uiVars == <<resultItems, resultMap, selectedIndex, resultsList, isSelected,
            anyResults, resultsByType>>

vars == <<registryVars, callVars, ctxDone, taskVars, collectorVars, chanVars,
          consumerVars, uiVars>>

\* A task that has not (yet) got an answer from Provider.Search.
\*   returned:  p.Search has returned, with err and results
\*   cancelled: ctx was cancelled when p.Search returned
\*   sent:      the task's send (on errCh or on resultCollector) was taken
\*   kept:      what the collector's filter kept of the results
NoOutcome == [returned |-> FALSE, err |-> FALSE, results |-> << >>,
              cancelled |-> FALSE, sent |-> FALSE, kept |-> << >>]

\* ------------------------------------------------------------- helpers

\* fmt.Sprintf("%s:%s", string(result.Type), result.Path)
ResultKey(result) == result.Type \o ":" \o result.Path

\* The collector's filter of one batch: the results whose key is neither in
\* seen nor the key of an earlier result of the batch, in the batch's order.
RECURSIVE UniqueOf(_, _)
UniqueOf(results, seen) ==
    IF results = << >> THEN << >>
    ELSE LET result == Head(results)
             resultKey == ResultKey(result)
         IN IF resultKey \notin seen
            THEN <<result>> \o UniqueOf(Tail(results), seen \cup {resultKey})
            ELSE UniqueOf(Tail(results), seen)

KeysOf(results) == {ResultKey(results[i]) : i \in 1..Len(results)}

\* A goroutine of the process has panicked: the process is gone.
Panicked == \E s \in Sessions : \E p \in ProviderIds : tpc[s][p] = "panic"

\* IsEmptyQuery without the short circuit: the empty query is dispatched.
IsEmptyQueryNever(q) == FALSE

\* if query == "" { ... return }
IsEmptyQuery(q) == q = ""

\* NoActiveProviders without the early return: the collector is started.
NoActiveProvidersNever(applicable) == FALSE

\* if activeProviders == 0 { ... return }
NoActiveProviders(applicable) == Cardinality(applicable) = 0

\* Skipped that skips no provider: a task is started for every provider.
SkippedNever(p, accepted) == FALSE

\* if !provider.CanHandle(query) { continue }
Skipped(p, accepted) == p \notin accepted

\* FirstCheckpoint left out: the task calls Search whatever the context says.
FirstCheckpointSkipped(s) == FALSE

\* The task's select on ctx.Done() with a default case, before p.Search.
FirstCheckpoint(s) == ctxDone[s]

\* SecondCheckpoint left out: the task publishes whatever Search returned.
SecondCheckpointSkipped(s) == FALSE

\* The task's select on ctx.Done() with a default case, after p.Search.
SecondCheckpoint(s) == ctxDone[s]

\* The collector's select on ctx.Done() with a default case, after its loop.
FinalCheckpoint(s) == ctxDone[s]

\* NonEmpty that lets every slice through.
NonEmptyAlways(results) == TRUE

\* if len(results) > 0, if len(uniqueResults) > 0
NonEmpty(results) == Len(results) > 0

\* HasError with the error ignored: the task goes on with the results.
HasErrorIgnored(o) == FALSE

\* if err != nil { ... return }
HasError(o) == o.err

\* AllTasksDone that gives up on a task whose Search never returns.
AllTasksDoneButHung(s) == \A p \in ProviderIds : tpc[s][p] \in {"none", "done", "hung"}

\* wg.Wait() returns: every task the call started has run its wg.Done().
AllTasksDone(s) == \A p \in ProviderIds : tpc[s][p] \in {"none", "done"}

\* ------------------------------------------- SearchAsync: the call itself

\* SearchAsync up to its return or to its send on doneCh.  CanHandle is
\* called for every registered provider; the providers that accept the
\* query are `applicable`, and each gets a task.
SearchAsync(s) ==
    /\ ~Panicked
    /\ spc[s] = "called"
    /\ IF IsEmptyQuery(query[s])
       THEN /\ resultsClosed' = [resultsClosed EXCEPT ![s] = @ + 1]
            /\ spc' = [spc EXCEPT ![s] = "emptySendDone"]
            /\ UNCHANGED <<sentResults, handleVars, tpc, cpc, errClosed>>
       ELSE \E applicable \in SUBSET {providers[i] : i \in 1..Len(providers)} :
            /\ sentResults' = {}
            /\ canHandleCalls' = [canHandleCalls EXCEPT ![s] = @ + Len(providers)]
            /\ canHandle' = [canHandle EXCEPT ![s] = applicable]
            /\ tpc' = [tpc EXCEPT ![s] =
                          [p \in ProviderIds |->
                              IF Skipped(p, applicable) THEN "none" ELSE "check1"]]
            /\ IF NoActiveProviders({p \in ProviderIds : ~Skipped(p, applicable)})
               THEN /\ resultsClosed' = [resultsClosed EXCEPT ![s] = @ + 1]
                    /\ errClosed' = [errClosed EXCEPT ![s] = @ + 1]
                    /\ spc' = [spc EXCEPT ![s] = "noneSendDone"]
                    /\ UNCHANGED cpc
               ELSE /\ cpc' = [cpc EXCEPT ![s] = "range"]
                    /\ spc' = [spc EXCEPT ![s] = "returned"]
                    /\ UNCHANGED <<resultsClosed, errClosed>>
    /\ UNCHANGED <<uiVars, regVars, concurrentCall, query, ctxDone, taskOut, searchCalls,
                   collectorClosed, uniqueResults, doneClosed, consumerVars>>

\* The empty-query path: doneCh <- struct{}{} taken by the consumer, then
\* close(doneCh), close(errCh).
SendDoneEmpty(s) ==
    /\ ~Panicked
    /\ spc[s] = "emptySendDone"
    /\ receiving[s]
    /\ doneReceived' = [doneReceived EXCEPT ![s] = @ + 1]
    /\ doneClosed' = [doneClosed EXCEPT ![s] = @ + 1]
    /\ errClosed' = [errClosed EXCEPT ![s] = @ + 1]
    /\ spc' = [spc EXCEPT ![s] = "returned"]
    /\ UNCHANGED <<registryVars, query, handleVars, ctxDone, taskVars,
                   collectorVars, resultsClosed, delivered, errsReceived>>

\* The no-active-provider path: doneCh <- struct{}{} taken by the consumer,
\* then close(doneCh).
SendDoneNoProvider(s) ==
    /\ ~Panicked
    /\ spc[s] = "noneSendDone"
    /\ receiving[s]
    /\ doneReceived' = [doneReceived EXCEPT ![s] = @ + 1]
    /\ doneClosed' = [doneClosed EXCEPT ![s] = @ + 1]
    /\ spc' = [spc EXCEPT ![s] = "returned"]
    /\ UNCHANGED <<registryVars, query, handleVars, ctxDone, taskVars,
                   collectorVars, resultsClosed, errClosed, delivered,
                   errsReceived>>

\* ------------------------------------------------------ the provider task

\* The first checkpoint, and the call of p.Search when it passes.
TaskStart(s, p) ==
    /\ ~Panicked
    /\ tpc[s][p] = "check1"
    /\ IF FirstCheckpoint(s)
       THEN /\ tpc' = [tpc EXCEPT ![s][p] = "done"]
            /\ UNCHANGED searchCalls
       ELSE /\ tpc' = [tpc EXCEPT ![s][p] = "searching"]
            /\ searchCalls' = [searchCalls EXCEPT ![s][p] = @ + 1]
    /\ UNCHANGED <<uiVars, registryVars, callVars, ctxDone, taskOut, collectorVars,
                   chanVars, consumerVars>>

\* p.Search returns, and the second checkpoint: a cancelled task returns, a
\* task with an error goes to its send on errCh, a task with results to its
\* send on resultCollector, a task with no result returns.
SearchReturns(s, p) ==
    /\ ~Panicked
    /\ tpc[s][p] = "searching"
    /\ \E o \in SearchOutcomes(p) :
        /\ taskOut' = [taskOut EXCEPT ![s][p] =
                          [returned |-> TRUE, err |-> o.err, results |-> o.results,
                           cancelled |-> ctxDone[s], sent |-> FALSE, kept |-> << >>]]
        /\ tpc' = [tpc EXCEPT ![s][p] =
                      IF SecondCheckpoint(s) THEN "done"
                      ELSE IF HasError(o) THEN "sendErr"
                      ELSE IF NonEmpty(o.results) THEN "sendRes"
                      ELSE "done"]
    /\ UNCHANGED <<uiVars, registryVars, callVars, ctxDone, searchCalls, collectorVars,
                   chanVars, consumerVars>>

\* p.Search is a call that never returns: the task stays in it.
SearchHangs(s, p) ==
    /\ ~Panicked
    /\ tpc[s][p] = "searching"
    /\ tpc' = [tpc EXCEPT ![s][p] = "hung"]
    /\ UNCHANGED <<uiVars, registryVars, callVars, ctxDone, taskOut, searchCalls,
                   collectorVars, chanVars, consumerVars>>

\* select { case errCh <- err: ... }: the consumer receives the error.
SendErr(s, p) ==
    /\ ~Panicked
    /\ tpc[s][p] = "sendErr"
    /\ receiving[s]
    /\ errClosed[s] = 0
    /\ errsReceived' = [errsReceived EXCEPT ![s] = @ \cup {p}]
    /\ tpc' = [tpc EXCEPT ![s][p] = "done"]
    /\ taskOut' = [taskOut EXCEPT ![s][p].sent = TRUE]
    /\ UNCHANGED <<registryVars, callVars, ctxDone, searchCalls,
                   collectorVars, chanVars, delivered, doneReceived>>

\* select { ... case <-ctx.Done(): return } at the send on errCh.
TaskSendErrCancelled(s, p) ==
    /\ ~Panicked
    /\ tpc[s][p] = "sendErr"
    /\ ctxDone[s]
    /\ tpc' = [tpc EXCEPT ![s][p] = "done"]
    /\ UNCHANGED <<uiVars, registryVars, callVars, ctxDone, taskOut, searchCalls,
                   collectorVars, chanVars, consumerVars>>

\* select { case errCh <- err: ... } when errCh is closed: the send case is
\* ready and panics when it is the one chosen.
TaskSendErrPanics(s, p) ==
    /\ ~Panicked
    /\ tpc[s][p] = "sendErr"
    /\ errClosed[s] > 0
    /\ tpc' = [tpc EXCEPT ![s][p] = "panic"]
    /\ UNCHANGED <<uiVars, registryVars, callVars, ctxDone, taskOut, searchCalls,
                   collectorVars, chanVars, consumerVars>>

\* RangeReceives that takes no batch while a Search of the session is still
\* running: a collector that waits for all providers.
RangeReceivesAfterAll(s) ==
    /\ cpc[s] = "range"
    /\ ~collectorClosed[s]
    /\ \A q \in ProviderIds : tpc[s][q] \notin {"check1", "searching", "hung"}

\* for result := range resultCollector: the collector of session s stands at
\* the receive of its loop, whatever the other tasks are doing.
RangeReceives(s) ==
    /\ cpc[s] = "range"
    /\ ~collectorClosed[s]

\* select { case resultCollector <- priorityResult{...}: ... }: the collector's
\* range receives the batch and filters it against r.sentResults.
TaskSendResults(s, p) ==
    /\ ~Panicked
    /\ tpc[s][p] = "sendRes"
    /\ RangeReceives(s)
    /\ LET unique == UniqueOf(taskOut[s][p].results, sentResults)
       IN /\ sentResults' = sentResults \cup KeysOf(unique)
          /\ uniqueResults' = [uniqueResults EXCEPT ![s] = unique]
          /\ cpc' = [cpc EXCEPT ![s] = IF NonEmpty(unique) THEN "select" ELSE "range"]
          /\ taskOut' = [taskOut EXCEPT ![s][p].sent = TRUE, ![s][p].kept = unique]
    /\ tpc' = [tpc EXCEPT ![s][p] = "done"]
    /\ UNCHANGED <<uiVars, regVars, concurrentCall, callVars, ctxDone,
                   searchCalls, collectorClosed, chanVars, consumerVars>>

\* select { ... case <-ctx.Done(): return } at the send on resultCollector.
TaskSendResultsCancelled(s, p) ==
    /\ ~Panicked
    /\ tpc[s][p] = "sendRes"
    /\ ctxDone[s]
    /\ tpc' = [tpc EXCEPT ![s][p] = "done"]
    /\ UNCHANGED <<uiVars, registryVars, callVars, ctxDone, taskOut, searchCalls,
                   collectorVars, chanVars, consumerVars>>

\* ---------------------------------------------------------- the collector

\* go func() { wg.Wait(); close(resultCollector) }()
WaitAndClose(s) ==
    /\ ~Panicked
    /\ cpc[s] # "none"
    /\ ~collectorClosed[s]
    /\ AllTasksDone(s)
    /\ collectorClosed' = [collectorClosed EXCEPT ![s] = TRUE]
    /\ UNCHANGED <<uiVars, registryVars, callVars, ctxDone, taskVars, cpc, uniqueResults,
                   chanVars, consumerVars>>

\* select { case resultsCh <- uniqueResults: }: the consumer receives the batch.
SendBatch(s) ==
    /\ ~Panicked
    /\ cpc[s] = "select"
    /\ receiving[s]
    /\ delivered' = [delivered EXCEPT ![s] = Append(@, uniqueResults[s])]
    /\ uniqueResults' = [uniqueResults EXCEPT ![s] = << >>]
    /\ cpc' = [cpc EXCEPT ![s] = "range"]
    /\ UNCHANGED <<registryVars, callVars, ctxDone, taskVars, collectorClosed,
                   chanVars, errsReceived, doneReceived>>

\* select { ... case <-ctx.Done(): } at the send on resultsCh: close(resultsCh),
\* close(errCh), then the send on doneCh.
CollectorCancelled(s) ==
    /\ ~Panicked
    /\ cpc[s] = "select"
    /\ ctxDone[s]
    /\ resultsClosed' = [resultsClosed EXCEPT ![s] = @ + 1]
    /\ errClosed' = [errClosed EXCEPT ![s] = @ + 1]
    /\ uniqueResults' = [uniqueResults EXCEPT ![s] = << >>]
    /\ cpc' = [cpc EXCEPT ![s] = "sendDone"]
    /\ UNCHANGED <<uiVars, registryVars, callVars, ctxDone, taskVars, collectorClosed,
                   doneClosed, consumerVars>>

\* The range loop ends (resultCollector is closed and empty); the final select:
\* a cancelled session closes nothing, another one closes resultsCh and errCh
\* and goes to its send on doneCh.
CollectorFinish(s) ==
    /\ ~Panicked
    /\ cpc[s] = "range"
    /\ collectorClosed[s]
    /\ IF FinalCheckpoint(s)
       THEN /\ cpc' = [cpc EXCEPT ![s] = "exit"]
            /\ UNCHANGED <<resultsClosed, errClosed>>
       ELSE /\ resultsClosed' = [resultsClosed EXCEPT ![s] = @ + 1]
            /\ errClosed' = [errClosed EXCEPT ![s] = @ + 1]
            /\ cpc' = [cpc EXCEPT ![s] = "sendDone"]
    /\ UNCHANGED <<uiVars, registryVars, callVars, ctxDone, taskVars, collectorClosed,
                   uniqueResults, doneClosed, consumerVars>>

\* AfterDone without the return of the cancellation branch: the collector
\* goes back to its range loop.
AfterDoneKeepsRanging(s) == IF ctxDone[s] THEN "range" ELSE "exit"

\* Where the collector is after close(doneCh): the cancellation branch
\* returns, the normal completion is the end of the goroutine.
AfterDone(s) == "exit"

\* doneCh <- struct{}{} taken by the consumer, then close(doneCh), on either
\* path of the collector.
SendDone(s) ==
    /\ ~Panicked
    /\ cpc[s] = "sendDone"
    /\ receiving[s]
    /\ doneReceived' = [doneReceived EXCEPT ![s] = @ + 1]
    /\ doneClosed' = [doneClosed EXCEPT ![s] = @ + 1]
    /\ cpc' = [cpc EXCEPT ![s] = AfterDone(s)]
    /\ UNCHANGED <<registryVars, callVars, ctxDone, taskVars, collectorClosed,
                   uniqueResults, resultsClosed, errClosed, delivered,
                   errsReceived>>

\* ------------------------------------------------- the caller of SearchAsync

\* A caller that receives from the three channels and keeps nothing but what
\* it received: each send of the session, taken by this caller.
SignalDoneEmpty(s) == SendDoneEmpty(s) /\ UNCHANGED <<receiving, uiVars>>

SignalDoneNoProvider(s) == SendDoneNoProvider(s) /\ UNCHANGED <<receiving, uiVars>>

TaskSendErr(s, p) == SendErr(s, p) /\ UNCHANGED <<receiving, uiVars>>

CollectorDeliver(s) == SendBatch(s) /\ UNCHANGED <<receiving, uiVars>>

CollectorSignalDone(s) == SendDone(s) /\ UNCHANGED <<receiving, uiVars>>

\* The caller cancels the context it passed.
Cancel(s) ==
    /\ ~Panicked
    /\ spc[s] # "idle"
    /\ ~ctxDone[s]
    /\ ctxDone' = [ctxDone EXCEPT ![s] = TRUE]
    /\ UNCHANGED <<uiVars, registryVars, callVars, taskVars, collectorVars, chanVars,
                   consumerVars>>

\* The caller stops receiving from resultsCh, errCh and doneCh.
ConsumerStops(s) ==
    /\ ~Panicked
    /\ spc[s] # "idle"
    /\ receiving[s]
    /\ receiving' = [receiving EXCEPT ![s] = FALSE]
    /\ UNCHANGED <<uiVars, registryVars, callVars, ctxDone, taskVars, collectorVars,
                   chanVars, delivered, errsReceived, doneReceived>>

\* Another SearchAsync call with a non-empty query on the same Registry, seen
\* from this session: it replaces r.sentResults.
ConcurrentSearchAsync ==
    /\ ~Panicked
    /\ sentResults' = {}
    /\ concurrentCall' = TRUE
    /\ UNCHANGED <<uiVars, regVars, callVars, ctxDone, taskVars, collectorVars,
                   chanVars, consumerVars>>

\* The collector of that other call filters a batch of one of the providers
\* and marks its keys in r.sentResults.
ConcurrentCollector ==
    /\ ~Panicked
    /\ concurrentCall
    /\ \E p \in ProviderIds : \E o \in SearchOutcomes(p) :
        /\ Len(UniqueOf(o.results, sentResults)) > 0
        /\ sentResults' = sentResults \cup KeysOf(UniqueOf(o.results, sentResults))
    /\ UNCHANGED <<uiVars, regVars, concurrentCall, callVars, ctxDone, taskVars,
                   collectorVars, chanVars, consumerVars>>

\* ------------------------------------------------------ the search window

\* NewSearchResult(result): the row widget of a result, made by the consumer
\* loop of session s.  Two rows are the same object when they were made for
\* the same result by the same loop.
NewSearchResult(s, result) == [sess |-> s, result |-> result]

\* widget.NewLabel(text)
NewLabel(text) == [label |-> text]

\* SelectResult that takes an index past the end to the first item.
SelectResultWrapping(index, items, selIndex, selected) ==
    IF Len(items) = 0
    THEN [selectedIndex |-> selIndex, isSelected |-> selected]
    ELSE LET idx == IF index < 0 \/ index >= Len(items) THEN 0 ELSE index
         IN [selectedIndex |-> idx,
             isSelected |-> (selected \ {items[i] : i \in 1..Len(items)})
                                \cup {items[idx + 1]}]

\* selectResult(index) on the items, the selected index and the set of items
\* whose IsSelected is true: the new selectedIndex and the new set.
SelectResult(index, items, selIndex, selected) ==
    IF Len(items) = 0
    THEN [selectedIndex |-> selIndex, isSelected |-> selected]
    ELSE LET idx == IF index < 0 THEN 0
                    ELSE IF index >= Len(items) THEN Len(items) - 1
                    ELSE index
             deselected == IF selIndex >= 0 /\ selIndex < Len(items)
                           THEN selected \ {items[selIndex + 1]}
                           ELSE selected
         IN [selectedIndex |-> idx,
             isSelected |-> deselected \cup {items[idx + 1]}]

\* m[k] = v, for the maps of the window.
MapPut(m, k, v) == [x \in DOMAIN m \cup {k} |-> IF x = k THEN v ELSE m[x]]

\* The consumer loop's "for _, result := range results": a result whose key is
\* in resultMap is skipped, another one gets a row appended to resultItems,
\* its index recorded in resultMap and in resultsByType.
RECURSIVE ProcessResults(_, _, _, _, _)
ProcessResults(s, results, items, map, byType) ==
    IF results = << >>
    THEN [resultItems |-> items, resultMap |-> map, resultsByType |-> byType]
    ELSE LET result == Head(results)
             resultKey == ResultKey(result)
             resultIndex == Len(items)
         IN IF resultKey \in DOMAIN map
            THEN ProcessResults(s, Tail(results), items, map, byType)
            ELSE ProcessResults(s, Tail(results),
                     Append(items, NewSearchResult(s, result)),
                     MapPut(map, resultKey, resultIndex),
                     MapPut(byType, result.Type,
                            IF result.Type \in DOMAIN byType
                            THEN Append(byType[result.Type], resultIndex)
                            ELSE <<resultIndex>>))

\* case results, ok := <-resultsCh, with ok and a non-empty batch.
OnResults(s, results) ==
    LET firstSet == ~anyResults[s]
        list0 == IF firstSet THEN << >> ELSE resultsList
        sel0 == IF firstSet THEN 0 ELSE selectedIndex
        currentItemsCount == Len(resultItems)
        after == ProcessResults(s, results, resultItems, resultMap, resultsByType[s])
        items == after.resultItems
    IN /\ anyResults' = [anyResults EXCEPT ![s] = TRUE]
       /\ resultItems' = items
       /\ resultMap' = after.resultMap
       /\ resultsByType' = [resultsByType EXCEPT ![s] = after.resultsByType]
       /\ IF currentItemsCount = 0 /\ Len(items) > 0
          THEN LET sel == SelectResult(0, items, sel0, isSelected \cup {items[1]})
               IN /\ resultsList' = list0 \o items
                  /\ selectedIndex' = sel.selectedIndex
                  /\ isSelected' = sel.isSelected
          ELSE /\ resultsList' = IF currentItemsCount > 0 THEN items ELSE list0
               /\ selectedIndex' = sel0
               /\ UNCHANGED isSelected
       /\ UNCHANGED receiving

\* case err, ok := <-errCh, with ok and a non-nil error.
OnError(s) ==
    /\ resultsList' = <<NewLabel("Error")>>
    /\ UNCHANGED <<receiving, resultItems, resultMap, selectedIndex, isSelected,
                   anyResults, resultsByType>>

\* case <-doneCh: the loop ends.
OnDone(s) ==
    /\ resultsList' = IF ~anyResults[s] THEN <<NewLabel("No results found")>>
                      ELSE resultsList
    /\ receiving' = [receiving EXCEPT ![s] = FALSE]
    /\ UNCHANGED <<resultItems, resultMap, selectedIndex, isSelected, anyResults,
                   resultsByType>>

\* Each send of a session, taken by the consumer loop performSearch started.
WindowDoneNoProvider(s) == SendDoneNoProvider(s) /\ OnDone(s)

WindowError(s, p) == SendErr(s, p) /\ OnError(s)

WindowResults(s) == SendBatch(s) /\ OnResults(s, uniqueResults[s])

WindowDone(s) == SendDone(s) /\ OnDone(s)

\* case results, ok := <-resultsCh, with resultsCh closed: the loop ends.
WindowResultsClosed(s) ==
    /\ ~Panicked
    /\ receiving[s]
    /\ resultsClosed[s] > 0
    /\ receiving' = [receiving EXCEPT ![s] = FALSE]
    /\ UNCHANGED <<registryVars, callVars, ctxDone, taskVars, collectorVars,
                   chanVars, delivered, errsReceived, doneReceived, uiVars>>

\* The session performSearch starts next.
NextSession == CHOOSE s \in Sessions :
                   spc[s] = "idle" /\ \A r \in Sessions : spc[r] = "idle" => s <= r

\* performSearch(query), called by the timer goroutine: the window's result
\* state is reset; for a non-empty query fresh channels are made, SearchAsync
\* is started on them (with no context: nothing cancels the session) and a
\* consumer loop is started.
PerformSearch(q) ==
    /\ ~Panicked
    /\ resultItems' = << >>
    /\ resultMap' = << >>
    /\ selectedIndex' = 0
    /\ IF q = ""
       THEN UNCHANGED <<query, spc, receiving, anyResults, resultsByType>>
       ELSE /\ \E s \in Sessions : spc[s] = "idle"
            /\ LET s == NextSession
               IN /\ query' = [query EXCEPT ![s] = q]
                  /\ spc' = [spc EXCEPT ![s] = "called"]
                  /\ receiving' = [receiving EXCEPT ![s] = TRUE]
                  /\ anyResults' = [anyResults EXCEPT ![s] = FALSE]
                  /\ resultsByType' = [resultsByType EXCEPT ![s] = << >>]
    /\ UNCHANGED <<fixedVars, execution, launchVars, sentResults, concurrentCall, handleVars,
                   ctxDone, taskVars, collectorVars, chanVars, delivered,
                   errsReceived, doneReceived, resultsList, isSelected>>

\* ------------------------------------------- selection and confirmation

\* ShowWithKeyboardFocus(): the hotkey shows the window.
ShowWithKeyboardFocus ==
    /\ ~show
    /\ show' = TRUE
    /\ UNCHANGED <<launched, launchCalls, selectCalls, fixedVars, execution, entryVars,
                   sentResults, concurrentCall, callVars, ctxDone, taskVars,
                   collectorVars, chanVars, consumerVars, uiVars>>

\* What the selection functions leave alone.
selectFrame == <<resultItems, resultMap, resultsList, anyResults, resultsByType,
                 fixedVars, execution, entryVars, show, launched, launchCalls,
                 sentResults, concurrentCall, callVars, ctxDone,
                 taskVars, collectorVars, chanVars, consumerVars>>

\* The selection after selectResult(index).
Select(index) ==
    /\ LET sel == SelectResult(index, resultItems, selectedIndex, isSelected)
       IN /\ selectedIndex' = sel.selectedIndex
          /\ isSelected' = sel.isSelected
    /\ UNCHANGED selectFrame

\* selectNextResult(), on fyne.KeyDown
SelectNextResult ==
    /\ show
    /\ selectCalls < MaxSelects
    /\ selectCalls' = selectCalls + 1
    /\ IF Len(resultItems) = 0
       THEN UNCHANGED <<selectedIndex, isSelected, selectFrame>>
       ELSE LET nextIndex == selectedIndex + 1
            IN Select(IF nextIndex >= Len(resultItems) THEN 0 ELSE nextIndex)

\* selectPreviousResult(), on fyne.KeyUp
SelectPreviousResult ==
    /\ show
    /\ selectCalls < MaxSelects
    /\ selectCalls' = selectCalls + 1
    /\ IF Len(resultItems) = 0
       THEN UNCHANGED <<selectedIndex, isSelected, selectFrame>>
       ELSE LET prevIndex == selectedIndex - 1
            IN Select(IF prevIndex < 0 THEN Len(resultItems) - 1 ELSE prevIndex)

\* selectResult(index) called with any index.
CallSelectResult(index) ==
    /\ selectCalls < MaxSelects
    /\ selectCalls' = selectCalls + 1
    /\ Select(index)

\* result.Action is not nil.  Providers bind an Action to their results; the
\* result with the path "/b" stands for a result without one.
HasAction(result) == result.Path # "/b"

\* OnTap that leaves the window shown.
TappedWithoutHide(item) ==
    [actions |-> IF HasAction(item.result) THEN <<item>> ELSE << >>, hide |-> FALSE]

\* resultItem.OnTap as performSearch binds it: the result's Action, if it has
\* one, then sw.Hide().
Tapped(item) ==
    [actions |-> IF HasAction(item.result) THEN <<item>> ELSE << >>, hide |-> TRUE]

\* launchSelectedResult(), on fyne.KeyReturn or on submission of the entry
LaunchSelectedResult ==
    /\ show
    /\ launchCalls < MaxLaunches
    /\ launchCalls' = launchCalls + 1
    /\ IF selectedIndex >= 0 /\ selectedIndex < Len(resultItems)
       THEN LET tap == Tapped(resultItems[selectedIndex + 1])
            IN /\ launched' = launched \o tap.actions
               /\ show' = IF tap.hide THEN FALSE ELSE show
       ELSE UNCHANGED <<launched, show>>
    /\ UNCHANGED <<selectCalls, fixedVars, execution, entryVars, sentResults, concurrentCall,
                   callVars, ctxDone, taskVars, collectorVars, chanVars,
                   consumerVars, uiVars>>

\* ------------------------------------------------ the search delay timer

\* The query that the entry's text is: empty before the first keystroke.
TextOf(revision) == IF revision = 0 THEN "" ELSE "q"

\* searchInput.OnChanged: a keystroke changed the text; sw.timer.Reset(searchDelay)
\* restarts the timer.  Reset does not drain sw.timer.C: a value of an earlier
\* firing that the loop has not received yet stays in the channel (timers
\* before Go 1.23) or is discarded (timers since Go 1.23).
Keystroke ==
    /\ entryText < MaxKeystrokes
    /\ entryText' = entryText + 1
    /\ timerArmed' = TRUE
    /\ timerC' \in {timerC, 0}
    /\ UNCHANGED <<loopPc, fires, searches, fixedVars, execution, launchVars, sentResults,
                   concurrentCall, callVars, ctxDone, taskVars, collectorVars,
                   chanVars, consumerVars, uiVars>>

\* searchDelay has passed since the timer was started or reset: the timer
\* fires, a value is put in sw.timer.C unless one is waiting there.
TimerFires ==
    /\ timerArmed
    /\ timerArmed' = FALSE
    /\ timerC' = 1
    /\ fires' = Append(fires, entryText)
    /\ UNCHANGED <<entryText, loopPc, searches, fixedVars, execution, launchVars, sentResults,
                   concurrentCall, callVars, ctxDone, taskVars, collectorVars,
                   chanVars, consumerVars, uiVars>>

\* for range searchWindow.timer.C: the loop receives a value.
TimerLoopReceives ==
    /\ loopPc = "range"
    /\ timerC = 1
    /\ timerC' = 0
    /\ loopPc' = "call"
    /\ UNCHANGED <<entryText, timerArmed, fires, searches, fixedVars, execution, launchVars,
                   sentResults, concurrentCall, callVars, ctxDone, taskVars,
                   collectorVars, chanVars, consumerVars, uiVars>>

\* searchWindow.performSearch(searchInput.Text): the loop reads the text the
\* entry has now and calls performSearch with it.
TimerLoopSearches ==
    /\ loopPc = "call"
    /\ PerformSearch(TextOf(entryText))
    /\ searches' = Append(searches, entryText)
    /\ loopPc' = "range"
    /\ UNCHANGED <<entryText, timerArmed, timerC, fires>>

\* -------------------------------------------------------- specifications

\* ------------------------------------------------- Registry.RegisterProvider

\* The sort's comparison with the operands exchanged: a descending sort.
LessReversed(a, b) == Priority(a) > Priority(b)

\* func(i, j int) bool { return r.providers[i].Priority() < r.providers[j].Priority() }
Less(a, b) == Priority(a) < Priority(b)

\* The rearrangements of a sequence.
PermutationsOf(seq) ==
    {[i \in 1..Len(seq) |-> seq[f[i]]] : f \in Permutations(1..Len(seq))}

\* sort.Slice left out: the slice stays as append left it.
SortSliceOmitted(seq) == {seq}

\* sort.Slice(r.providers, less): the slice is rearranged so that no element
\* is less than an element before it.  sort.Slice is not a stable sort: the
\* order of elements of which neither is less than the other is any order.
SortSlice(seq) ==
    {sorted \in PermutationsOf(seq) :
        \A i, j \in 1..Len(sorted) : i < j => ~Less(sorted[j], sorted[i])}

\* AppendProvider that starts a new slice: the providers registered before
\* are gone.
AppendProviderToNone(ps, provider) == <<provider>>

\* append(r.providers, provider)
AppendProvider(ps, provider) == Append(ps, provider)

\* r.providers = append(r.providers, provider); sort.Slice(r.providers, ...)
RegisterProvider(provider) ==
    /\ Len(registered) < MaxRegistered
    /\ providers' \in SortSlice(AppendProvider(providers, provider))
    /\ registered' = Append(registered, provider)
    /\ UNCHANGED <<syncVars, hotkeyVars, execution, entryVars, launchVars, sentResults, concurrentCall, callVars, ctxDone,
                   taskVars, collectorVars, chanVars, consumerVars, uiVars>>

\* --------------------------------------- Registry.ExecuteResult and Execute

\* The implementation of Provider that a provider is: EncoderDecoder
\* (providers/encode_decode) or one of the others, which all have the same
\* Execute.
Implementation(p) == IF p % 5 = 0 THEN "EncoderDecoder" ELSE "Provider"

\* The results a caller can pass: of the type of some provider or of a type
\* that no provider has, with an Action or with a nil Action.
ExecutableResults ==
    [Title : {<<0, 0>>}, Path : {"/a"}, Type : {"app", "file", "web"},
     Action : BOOLEAN]

\* No call yet.
NoExecution == [op |-> "none", executed |-> << >>, actions |-> 0, err |-> "nil"]

\* provider.Execute(result): the error it returns and the number of times it
\* invokes result.Action.  EncoderDecoder.Execute does not look at
\* result.Type.
Execute(p, result) ==
    IF Implementation(p) # "EncoderDecoder" /\ result.Type # Type(p)
    THEN [err |-> "not a result of the provider", actions |-> 0]
    ELSE [err |-> "nil", actions |-> IF result.Action THEN 1 ELSE 0]

\* MatchesType that takes every provider.
MatchesAnyType(p, result) == TRUE

\* if provider.Type() == result.Type
MatchesType(p, result) == Type(p) = result.Type

\* for _, provider := range r.providers { if ... { return ... } }: the place
\* of the first provider the loop stops at, from place i on; 0 if none.
RECURSIVE FindProvider(_, _, _)
FindProvider(seq, i, result) ==
    IF i > Len(seq) THEN 0
    ELSE IF MatchesType(seq[i], result) THEN i
    ELSE FindProvider(seq, i + 1, result)

\* Registry.ExecuteResult(result)
ExecuteResult(result) ==
    /\ LET i == FindProvider(providers, 1, result)
       IN IF i # 0
          THEN LET out == Execute(providers[i], result)
               IN execution' = [op |-> "ExecuteResult", result |-> result,
                                executed |-> <<providers[i]>>,
                                actions |-> out.actions, err |-> out.err]
          ELSE execution' = [op |-> "ExecuteResult", result |-> result,
                             executed |-> << >>, actions |-> 0,
                             err |-> "no provider found for result type " \o result.Type]
    /\ UNCHANGED <<fixedVars, entryVars, launchVars, sentResults, concurrentCall, callVars, ctxDone,
                   taskVars, collectorVars, chanVars, consumerVars, uiVars>>

\* A caller that holds a provider calls its Execute.
CallExecute(p, result) ==
    /\ LET out == Execute(p, result)
       IN execution' = [op |-> "Execute", result |-> result, executed |-> <<p>>,
                        actions |-> out.actions, err |-> out.err]
    /\ UNCHANGED <<fixedVars, entryVars, launchVars, sentResults, concurrentCall, callVars, ctxDone,
                   taskVars, collectorVars, chanVars, consumerVars, uiVars>>


\* ------------------------------------------ the synchronous Registry.Search

\* Everything but the Search call and its goroutines.
notSyncVars == <<providers, registered, hotkeyVars, execution, entryVars, launchVars, sentResults,
                 concurrentCall, callVars, ctxDone, taskVars, collectorVars,
                 chanVars, consumerVars, uiVars>>

\* SearchFailed that looks at lastErr alone.
SearchFailedOnAnyError(results, err) == err # 0

\* if len(allResults) == 0 && lastErr != nil
SearchFailed(results, err) == Len(results) = 0 /\ err # 0

\* Search(query) up to its receive loop: the empty query returns at once;
\* otherwise a goroutine is started for every provider whose CanHandle
\* accepts the query, and it calls p.Search.
Search(q) ==
    /\ searchPc = "idle"
    /\ searchQuery' = q
    /\ IF q = ""
       THEN /\ searchRet' = [results |-> << >>, err |-> FALSE]
            /\ searchPc' = "returned"
            /\ UNCHANGED <<searchTask, providerCount>>
       ELSE \E applicable \in SUBSET {providers[i] : i \in 1..Len(providers)} :
            /\ searchTask' = [p \in ProviderIds |->
                                 IF p \in applicable THEN "searching" ELSE "none"]
            /\ providerCount' = Cardinality(applicable)
            /\ searchPc' = "loop"
            /\ UNCHANGED searchRet
    /\ UNCHANGED <<searchOut, allResults, lastErr, received, searchClosed, notSyncVars>>

\* p.Search returns to its goroutine, which goes to its send on errCh or on
\* resultsCh (an empty result slice is sent too).
SearchGoroutineReturns(p) ==
    /\ searchTask[p] = "searching"
    /\ \E o \in SearchOutcomes(p) :
        /\ searchOut' = [searchOut EXCEPT ![p] = o]
        /\ searchTask' = [searchTask EXCEPT ![p] = IF o.err THEN "sendErr" ELSE "sendRes"]
    /\ UNCHANGED <<searchPc, searchQuery, allResults, lastErr, received, providerCount,
                   searchClosed, searchRet, notSyncVars>>

\* p.Search never returns.
SearchGoroutineHangs(p) ==
    /\ searchTask[p] = "searching"
    /\ searchTask' = [searchTask EXCEPT ![p] = "hung"]
    /\ UNCHANGED <<searchPc, searchQuery, searchOut, allResults, lastErr, received,
                   providerCount, searchClosed, searchRet, notSyncVars>>

\* case results, ok := <-resultsCh with a goroutine's send: the results are
\* appended to allResults.
SearchReceivesResults(p) ==
    /\ searchPc = "loop"
    /\ received < providerCount
    /\ searchTask[p] = "sendRes"
    /\ ~searchClosed
    /\ allResults' = allResults \o searchOut[p].results
    /\ received' = received + 1
    /\ searchTask' = [searchTask EXCEPT ![p] = "done"]
    /\ UNCHANGED <<searchPc, searchQuery, searchOut, lastErr, providerCount,
                   searchClosed, searchRet, notSyncVars>>

\* case err, ok := <-errCh with a goroutine's send: the error becomes lastErr.
SearchReceivesErr(p) ==
    /\ searchPc = "loop"
    /\ received < providerCount
    /\ searchTask[p] = "sendErr"
    /\ ~searchClosed
    /\ lastErr' = p
    /\ received' = received + 1
    /\ searchTask' = [searchTask EXCEPT ![p] = "done"]
    /\ UNCHANGED <<searchPc, searchQuery, searchOut, allResults, providerCount,
                   searchClosed, searchRet, notSyncVars>>

\* wg.Wait(); close(resultsCh); close(errCh): every goroutine has ended.
\* (A receive from the closed channels has ok false and changes nothing.)
SearchClosesChannels ==
    /\ searchPc # "idle"
    /\ searchQuery # ""
    /\ ~searchClosed
    /\ \A p \in ProviderIds : searchTask[p] \in {"none", "done"}
    /\ searchClosed' = TRUE
    /\ UNCHANGED <<searchPc, searchQuery, searchTask, searchOut, allResults, lastErr,
                   received, providerCount, searchRet, notSyncVars>>

\* The receive loop ends (received = providerCount) and Search returns.
SearchReturn ==
    /\ searchPc = "loop"
    /\ ~(received < providerCount)
    /\ searchRet' = IF SearchFailed(allResults, lastErr)
                    THEN [results |-> << >>, err |-> TRUE]
                    ELSE [results |-> allResults, err |-> FALSE]
    /\ searchPc' = "returned"
    /\ UNCHANGED <<searchQuery, searchTask, searchOut, allResults, lastErr, received,
                   providerCount, searchClosed, notSyncVars>>

\* NewRegistry and the providers registered at startup, in priority order.
InitRegistry ==
    /\ providers = [i \in 1..NumProviders |-> i]
    /\ registered = [i \in 1..NumProviders |-> i]
    /\ execution = NoExecution
    /\ sentResults = {}
    /\ concurrentCall = FALSE

\* NewSearchWindow: nothing is shown, nothing is selected.
InitWindow ==
    /\ resultItems = << >>
    /\ resultMap = << >>
    /\ selectedIndex = 0
    /\ resultsList = << >>
    /\ isSelected = {}
    /\ anyResults = [s \in Sessions |-> FALSE]
    /\ resultsByType = [s \in Sessions |-> << >>]
    /\ entryText = 0
    /\ timerArmed = TRUE
    /\ timerC = 0
    /\ loopPc = "range"
    /\ fires = << >>
    /\ searches = << >>
    /\ show = FALSE
    /\ launched = << >>
    /\ launchCalls = 0
    /\ selectCalls = 0

\* No session has been started.
InitSessions ==
    /\ query = [s \in Sessions |-> ""]
    /\ spc = [s \in Sessions |-> "idle"]
    /\ ctxDone = [s \in Sessions |-> FALSE]
    /\ tpc = [s \in Sessions |-> [p \in ProviderIds |-> "none"]]
    /\ taskOut = [s \in Sessions |-> [p \in ProviderIds |-> NoOutcome]]
    /\ searchCalls = [s \in Sessions |-> [p \in ProviderIds |-> 0]]
    /\ canHandleCalls = [s \in Sessions |-> 0]
    /\ canHandle = [s \in Sessions |-> {}]
    /\ collectorClosed = [s \in Sessions |-> FALSE]
    /\ cpc = [s \in Sessions |-> "none"]
    /\ uniqueResults = [s \in Sessions |-> << >>]
    /\ resultsClosed = [s \in Sessions |-> 0]
    /\ errClosed = [s \in Sessions |-> 0]
    /\ doneClosed = [s \in Sessions |-> 0]
    /\ receiving = [s \in Sessions |-> FALSE]
    /\ delivered = [s \in Sessions |-> << >>]
    /\ errsReceived = [s \in Sessions |-> {}]
    /\ doneReceived = [s \in Sessions |-> 0]

\* A caller calls SearchAsync(ctx, q, resultsCh, errCh, doneCh) with fresh
\* channels and receives from the three of them.
CallSearchAsync(s, q) ==
    /\ ~Panicked
    /\ spc[s] = "idle"
    /\ query' = [query EXCEPT ![s] = q]
    /\ spc' = [spc EXCEPT ![s] = "called"]
    /\ receiving' = [receiving EXCEPT ![s] = TRUE]
    /\ UNCHANGED <<uiVars, registryVars, handleVars, ctxDone, taskVars, collectorVars,
                   chanVars, delivered, errsReceived, doneReceived>>

\* ------------------------------------------------ the hotkey EventHandler

HotkeyCallers == 1..NumCallers
Callbacks == 1..NumCallbacks

\* The key codes and modifiers callers pass: KeyReturn, KeySpace, and a
\* number that is no Unicode code point; ModCommand.
KeyCodes == {36, 49, 55296}
Modifiers == {256}

\* string(rune(n)): the UTF-8 encoding of the code point n, and of U+FFFD
\* when n is not a valid code point.
RuneString(n) ==
    IF n < 0 \/ n > 1114111 \/ (n >= 55296 /\ n <= 57343) THEN 65533 ELSE n

\* keyComboString(keyCode, modifiers)
keyComboString(keyCode, modifiers) == <<RuneString(keyCode), "-", RuneString(modifiers)>>

KeyStrings == {keyComboString(k, m) : k \in KeyCodes, m \in Modifiers}

\* Everything but the EventHandler and the package's hotkey state.
notHotkeyVars == <<providers, registered, syncVars, execution, entryVars, launchVars,
                   sentResults, concurrentCall, callVars, ctxDone, taskVars,
                   collectorVars, chanVars, consumerVars, uiVars>>

\* GetEventHandler(): nothing is registered, nobody calls.
InitHotkey ==
    /\ mu = 0
    /\ hpc = [t \in HotkeyCallers |-> "idle"]
    /\ hcallback = [t \in HotkeyCallers |-> 0]
    /\ hresult = [t \in HotkeyCallers |-> "none"]
    /\ globalHotkeySet = FALSE
    /\ globalHotkeyCallback = 0
    /\ hotkeyRef = FALSE
    /\ isMonitoring = FALSE
    /\ registeredKeys = [k \in KeyStrings |-> 0]
    /\ keyCallbacks = [k \in KeyStrings |-> 0]
    /\ keyEvent = [key |-> << >>, callback |-> 0]

\* RegisterGlobalHotkey(keyCode, modifiers, callback) up to its call of
\* UnregisterGlobalHotkey or to the store of the callback: h.mu.Lock(), then
\* if h.globalHotkeySet { h.UnregisterGlobalHotkey() }.
RegisterGlobalHotkey(t, callback) ==
    /\ hpc[t] = "idle"
    /\ mu = 0
    /\ mu' = t
    /\ hcallback' = [hcallback EXCEPT ![t] = callback]
    /\ hresult' = [hresult EXCEPT ![t] = "none"]
    /\ hpc' = [hpc EXCEPT ![t] = IF globalHotkeySet THEN "unregisterInRegister"
                                                     ELSE "register"]
    /\ UNCHANGED <<globalHotkeySet, globalHotkeyCallback, hotkeyRef, isMonitoring,
                   registeredKeys, keyCallbacks, keyEvent, notHotkeyVars>>

\* UnregisterGlobalHotkey(), called by a caller or by RegisterGlobalHotkey:
\* h.mu.Lock() succeeds when nobody holds h.mu (sync.RWMutex is not
\* reentrant); then the body runs and the deferred h.mu.Unlock().
\* C.unregisterHotkey() sets hotkeyRef to NULL and reports whether
\* UnregisterEventHotKey succeeded.
UnregisterGlobalHotkey(t) ==
    /\ hpc[t] \in {"idle", "unregisterInRegister"}
    /\ mu = 0
    /\ mu' = 0
    /\ IF ~globalHotkeySet
       THEN UNCHANGED <<globalHotkeySet, globalHotkeyCallback, hotkeyRef>>
       ELSE \E success \in (IF hotkeyRef THEN BOOLEAN ELSE {TRUE}) :
            /\ hotkeyRef' = FALSE
            /\ IF success
               THEN globalHotkeySet' = FALSE /\ globalHotkeyCallback' = 0
               ELSE UNCHANGED <<globalHotkeySet, globalHotkeyCallback>>
    /\ hpc' = [hpc EXCEPT ![t] = IF hpc[t] = "idle" THEN "idle" ELSE "register"]
    /\ UNCHANGED <<hcallback, hresult, isMonitoring, registeredKeys, keyCallbacks,
                   keyEvent, notHotkeyVars>>

\* The rest of RegisterGlobalHotkey: the callback is stored, C.registerHotkey
\* drops the hotkey the system has and registers the new one, which can
\* fail; globalHotkeySet is set on success; the deferred h.mu.Unlock().
RegisterGlobalHotkeyReturns(t) ==
    /\ hpc[t] = "register"
    /\ globalHotkeyCallback' = hcallback[t]
    /\ \E success \in BOOLEAN :
        /\ hotkeyRef' = success
        /\ globalHotkeySet' = IF success THEN TRUE ELSE globalHotkeySet
        /\ hresult' = [hresult EXCEPT ![t] = IF success THEN "true" ELSE "false"]
    /\ mu' = 0
    /\ hpc' = [hpc EXCEPT ![t] = "idle"]
    /\ UNCHANGED <<hcallback, isMonitoring, registeredKeys, keyCallbacks, keyEvent,
                   notHotkeyVars>>

\* RegisterKeyCombo(keyCode, modifiers, callback)
RegisterKeyCombo(t, keyCode, modifiers, callback) ==
    /\ hpc[t] = "idle"
    /\ mu = 0
    /\ LET key == keyComboString(keyCode, modifiers)
       IN registeredKeys' = [registeredKeys EXCEPT ![key] = callback]
    /\ isMonitoring' = TRUE
    /\ UNCHANGED <<mu, hpc, hcallback, hresult, globalHotkeySet, globalHotkeyCallback,
                   hotkeyRef, keyCallbacks, keyEvent, notHotkeyVars>>

\* UnregisterKeyCombo(keyCode, modifiers)
UnregisterKeyCombo(t, keyCode, modifiers) ==
    /\ hpc[t] = "idle"
    /\ mu = 0
    /\ LET key == keyComboString(keyCode, modifiers)
       IN registeredKeys' = [registeredKeys EXCEPT ![key] = 0]
    /\ UNCHANGED <<mu, hpc, hcallback, hresult, globalHotkeySet, globalHotkeyCallback,
                   hotkeyRef, isMonitoring, keyCallbacks, keyEvent, notHotkeyVars>>

\* The map goKeyEventCallback looks the key up in.
CallbackRegistry == keyCallbacks

\* goKeyEventCallback(keyCode, modifiers): the callback found under the key
\* is invoked, if there is one.
goKeyEventCallback(keyCode, modifiers) ==
    /\ LET key == keyComboString(keyCode, modifiers)
       IN keyEvent' = [key |-> key, callback |-> CallbackRegistry[key]]
    /\ UNCHANGED <<mu, hpc, hcallback, hresult, globalHotkeySet, globalHotkeyCallback,
                   hotkeyRef, isMonitoring, registeredKeys, keyCallbacks,
                   notHotkeyVars>>

\* Registry.Search has not been called.
InitSearch ==
    /\ searchPc = "idle"
    /\ searchQuery = ""
    /\ searchTask = [p \in ProviderIds |-> "none"]
    /\ searchOut = [p \in ProviderIds |-> [err |-> FALSE, results |-> << >>]]
    /\ allResults = << >>
    /\ lastErr = 0
    /\ received = 0
    /\ providerCount = 0
    /\ searchClosed = FALSE
    /\ searchRet = [results |-> << >>, err |-> FALSE]

Init == InitRegistry /\ InitSessions /\ InitWindow /\ InitSearch /\ InitHotkey

\* NewRegistry(): no provider is registered.
InitNewRegistry ==
    /\ providers = << >>
    /\ registered = << >>
    /\ execution = NoExecution
    /\ sentResults = {}
    /\ concurrentCall = FALSE

InitRegistration ==
    InitNewRegistry /\ InitSessions /\ InitWindow /\ InitSearch /\ InitHotkey

\* One SearchAsync session (session 1) with an arbitrary caller, on a Registry
\* that other SearchAsync calls may use at the same time.
SessionStep(s) ==
    \/ \E q \in Queries : CallSearchAsync(s, q)
    \/ SearchAsync(s)
    \/ SignalDoneEmpty(s)
    \/ SignalDoneNoProvider(s)
    \/ \E p \in ProviderIds :
        \/ TaskStart(s, p)
        \/ SearchReturns(s, p)
        \/ SearchHangs(s, p)
        \/ TaskSendErr(s, p)
        \/ TaskSendErrCancelled(s, p)
        \/ TaskSendErrPanics(s, p)
        \/ TaskSendResults(s, p)
        \/ TaskSendResultsCancelled(s, p)
    \/ WaitAndClose(s)
    \/ CollectorDeliver(s)
    \/ CollectorCancelled(s)
    \/ CollectorFinish(s)
    \/ CollectorSignalDone(s)
    \/ Cancel(s)
    \/ ConsumerStops(s)

Next ==
    \/ SessionStep(1)
    \/ ConcurrentSearchAsync
    \/ ConcurrentCollector

Spec == Init /\ [][Next]_vars

\* The goroutines of the session are scheduled: a step of the call, of a task
\* or of the collector that stays possible is eventually taken, and a call of
\* p.Search either returns or is one that never returns.  Nothing makes the
\* caller cancel or stop receiving, and nothing makes another call happen.
SessionFairness(s) ==
    /\ WF_vars(SearchAsync(s))
    /\ WF_vars(SignalDoneEmpty(s))
    /\ WF_vars(SignalDoneNoProvider(s))
    /\ \A p \in ProviderIds :
        /\ WF_vars(TaskStart(s, p))
        /\ WF_vars(SearchReturns(s, p) \/ SearchHangs(s, p))
        /\ WF_vars(TaskSendErr(s, p))
        /\ WF_vars(TaskSendErrCancelled(s, p))
        /\ WF_vars(TaskSendResults(s, p))
        /\ WF_vars(TaskSendResultsCancelled(s, p))
    /\ WF_vars(WaitAndClose(s))
    /\ WF_vars(CollectorDeliver(s))
    /\ WF_vars(CollectorCancelled(s))
    /\ WF_vars(CollectorFinish(s))
    /\ WF_vars(CollectorSignalDone(s))

FairSpec == Spec /\ SessionFairness(1)

\* The search window: every session is one that performSearch started, and its
\* consumer is the loop performSearch started with it.
WindowSessionStep(s) ==
    \/ SearchAsync(s)
    \/ WindowDoneNoProvider(s)
    \/ \E p \in ProviderIds :
        \/ TaskStart(s, p)
        \/ SearchReturns(s, p)
        \/ SearchHangs(s, p)
        \/ WindowError(s, p)
        \/ TaskSendResults(s, p)
    \/ WaitAndClose(s)
    \/ WindowResults(s)
    \/ CollectorFinish(s)
    \/ WindowDone(s)
    \/ WindowResultsClosed(s)

WindowNext ==
    \/ \E q \in Queries : PerformSearch(q) /\ UNCHANGED entryVars
    \/ \E s \in Sessions : WindowSessionStep(s)

WindowSpec == Init /\ [][WindowNext]_vars

\* A Registry and its callers: providers are registered one after the other,
\* results are executed through the Registry or by a provider directly.
RegistryNext ==
    \/ \E provider \in Candidates : RegisterProvider(provider)
    \/ \E result \in ExecutableResults : ExecuteResult(result)
    \/ \E p \in Candidates : \E result \in ExecutableResults : CallExecute(p, result)

RegistrySpec == InitRegistration /\ [][RegistryNext]_vars

\* setupSearchProviders: a provider is registered once, before the first
\* search.
RegisterAtStartup(provider) ==
    /\ spc[1] = "idle"
    /\ \A i \in 1..Len(registered) : registered[i] # provider
    /\ RegisterProvider(provider)

\* The Registry in use: providers are registered at startup, then a
\* SearchAsync session runs on it and results are executed through it.
RegistryUseNext ==
    \/ \E provider \in ProviderIds : RegisterAtStartup(provider)
    \/ SessionStep(1)
    \/ \E result \in ExecutableResults : ExecuteResult(result)

RegistryUseSpec == InitRegistration /\ [][RegistryUseNext]_vars

\* The search window with its user: searches are started, the first of them
\* is answered, the user shows the window, moves the selection and confirms
\* it.
LauncherNext ==
    \/ \E q \in Queries : PerformSearch(q) /\ UNCHANGED entryVars
    \/ WindowSessionStep(1)
    \/ ShowWithKeyboardFocus
    \/ SelectNextResult
    \/ SelectPreviousResult
    \/ LaunchSelectedResult

LauncherSpec == Init /\ [][LauncherNext]_vars

\* The search window with its user and with callers of selectResult.
SelectionNext ==
    \/ LauncherNext
    \/ \E index \in -1..MaxIndex : CallSelectResult(index)

SelectionSpec == Init /\ [][SelectionNext]_vars

\* The search window with a user who shows it, types one non-empty query
\* after the other, so that a search supersedes the one before it, and
\* presses Down once; every session is answered.
SupersededNext ==
    \/ (\A s \in Sessions : spc[s] = "idle") /\ ShowWithKeyboardFocus
    \/ \E q \in Queries \ {""} : show /\ PerformSearch(q) /\ UNCHANGED entryVars
    \/ \E s \in Sessions : WindowSessionStep(s)
    \/ selectCalls = 0 /\ SelectNextResult

SupersededSpec == Init /\ [][SupersededNext]_vars

\* One call of the synchronous Registry.Search on the Registry.
SyncSearchNext ==
    \/ \E q \in Queries : Search(q)
    \/ \E p \in ProviderIds :
        \/ SearchGoroutineReturns(p)
        \/ SearchGoroutineHangs(p)
        \/ SearchReceivesResults(p)
        \/ SearchReceivesErr(p)
    \/ SearchClosesChannels
    \/ SearchReturn

SyncSearchSpec == Init /\ [][SyncSearchNext]_vars

\* The callers of the EventHandler and the key events of the system.
HotkeyNext ==
    \/ \E t \in HotkeyCallers :
        \/ \E callback \in Callbacks : RegisterGlobalHotkey(t, callback)
        \/ UnregisterGlobalHotkey(t)
        \/ RegisterGlobalHotkeyReturns(t)
        \/ \E keyCode \in KeyCodes : \E modifiers \in Modifiers :
            \/ \E callback \in Callbacks :
                RegisterKeyCombo(t, keyCode, modifiers, callback)
            \/ UnregisterKeyCombo(t, keyCode, modifiers)
    \/ \E keyCode \in KeyCodes : \E modifiers \in Modifiers :
        goKeyEventCallback(keyCode, modifiers)

HotkeySpec == Init /\ [][HotkeyNext]_vars

\* A call that can go on does go on: the goroutines are scheduled.
HotkeyFairSpec ==
    /\ HotkeySpec
    /\ \A t \in HotkeyCallers :
        /\ WF_vars(hpc[t] = "unregisterInRegister" /\ UnregisterGlobalHotkey(t))
        /\ WF_vars(RegisterGlobalHotkeyReturns(t))

\* The search entry and its delay timer: the user types, the timer fires, the
\* timer's goroutine calls performSearch.
DebounceNext ==
    \/ Keystroke
    \/ TimerFires
    \/ TimerLoopReceives
    \/ TimerLoopSearches

DebounceSpec == Init /\ [][DebounceNext]_vars

\* ------------------------------------------------------------- properties

RECURSIVE Flatten(_)
Flatten(batches) ==
    IF batches = << >> THEN << >> ELSE Head(batches) \o Flatten(Tail(batches))

\* Every result the consumer of session s received from resultsCh, in order.
DeliveredResults(s) == Flatten(delivered[s])

\* The results of provider p in a sequence of results.
ResultsOf(p, results) == {i \in 1..Len(results) : results[i].Title[1] = p}

\* Provider p is applicable in session s: the call started a task for it.
Applicable(s, p) == tpc[s][p] # "none"

\* C1: within one session no two results delivered on resultsCh, in the same
\* batch or in different batches, have the same (Type, Path) key.
C1_NoKeyDeliveredTwice ==
    \A s \in Sessions :
        LET all == DeliveredResults(s)
        IN \A i, j \in 1..Len(all) : i # j => ResultKey(all[i]) # ResultKey(all[j])

\* The object of the container is the row of a result (not a label).
IsRow(object) == "result" \in DOMAIN object

\* The rows that the consumer loop of session s made, in a sequence of objects.
RowsOf(s, objects) ==
    {objects[i] : i \in {k \in 1..Len(objects) : IsRow(objects[k]) /\ objects[k].sess = s}}

\* The provider that returned the result of a row.
RowProvider(row) == row.result.Title[1]

\* C2: at every point in time the rows of the visible list that a session's
\* providers contributed are in ascending order of provider priority: a row
\* of a provider with a smaller Priority() precedes every row of a provider
\* with a larger one, also when the latter's batch arrived first.
C2_VisibleListInPriorityOrder ==
    \A i, j \in 1..Len(resultsList) :
        (/\ i < j
         /\ IsRow(resultsList[i]) /\ IsRow(resultsList[j])
         /\ resultsList[i].sess = resultsList[j].sess)
        => Priority(RowProvider(resultsList[i])) <= Priority(RowProvider(resultsList[j]))

\* C3: once the consumer of a later session has rendered a batch, no row of an
\* earlier session is added to resultItems or to the visible list.
C3_NoStaleRowAfterSupersession ==
    [][\A s1, s2 \in Sessions :
          (s1 < s2 /\ anyResults[s2]) =>
              /\ RowsOf(s1, resultItems') \subseteq RowsOf(s1, resultItems)
              /\ RowsOf(s1, resultsList') \subseteq RowsOf(s1, resultsList)]_vars

\* C4: a collector that has ended (all provider tasks completed, by success,
\* error or cancellation) has closed resultsCh and errCh and has signalled
\* done, also when the context was cancelled before the tasks completed.
C4_CollectorEndsWithChannelsClosed ==
    \A s \in Sessions :
        cpc[s] = "exit" =>
            resultsClosed[s] = 1 /\ errClosed[s] = 1 /\ doneReceived[s] = 1

\* C5: once the session's context is cancelled, no receive on resultsCh yields
\* a batch any more.
C5_NoBatchAfterCancellation ==
    [][\A s \in Sessions : ctxDone[s] => delivered'[s] = delivered[s]]_vars

\* C6: a task that finds the context cancelled at its first checkpoint, or
\* whose Search returns when the context is already cancelled, publishes
\* nothing: it never reaches a send, neither its error nor any of its results
\* reaches errCh, the collector or resultsCh.
C6_CancelledTaskPublishesNothing ==
    \A s \in Sessions : \A p \in ProviderIds :
        LET o == taskOut[s][p]
        IN (\/ o.returned /\ o.cancelled
            \/ tpc[s][p] = "done" /\ ~o.returned)
           => /\ tpc[s][p] = "done"
              /\ ~o.sent
              /\ p \notin errsReceived[s]
              /\ ResultsOf(p, uniqueResults[s]) = {}
              /\ ResultsOf(p, DeliveredResults(s)) = {}

\* A Search that returned results after the cancellation, and the task is over.
C6_Witness ==
    \E s \in Sessions : \E p \in ProviderIds :
        /\ taskOut[s][p].returned
        /\ taskOut[s][p].cancelled
        /\ ~taskOut[s][p].err
        /\ Len(taskOut[s][p].results) > 0
        /\ tpc[s][p] = "done"

\* The collector has taken the batch of p and the consumer has received what
\* the filter kept of it.
Settled(s, p) ==
    /\ taskOut[s][p].sent
    /\ \/ taskOut[s][p].kept = << >>
       \/ \E i \in 1..Len(delivered[s]) : delivered[s][i] = taskOut[s][p].kept

\* C7: a provider whose Search returns an error contributes no result, and
\* does not abort the session: as long as the caller neither cancels nor
\* stops receiving, the batch of every provider that returned results is taken
\* by the collector and what the filter keeps of it is delivered on resultsCh.
C7_ErrorsAreContained ==
    /\ [](\A s \in Sessions : \A p \in ProviderIds :
            taskOut[s][p].err =>
                /\ taskOut[s][p].kept = << >>
                /\ tpc[s][p] # "sendRes"
                /\ ResultsOf(p, uniqueResults[s]) = {}
                /\ ResultsOf(p, DeliveredResults(s)) = {})
    /\ \A s \in Sessions : \A p \in ProviderIds :
        (tpc[s][p] = "sendRes") ~> (ctxDone[s] \/ ~receiving[s] \/ Settled(s, p))

\* One provider's error was received and another provider's results were
\* delivered, in a session that is not cancelled and whose consumer receives.
C7_Witness ==
    \E s \in Sessions : \E p, q \in ProviderIds :
        /\ p # q
        /\ taskOut[s][p].err
        /\ p \in errsReceived[s]
        /\ taskOut[s][q].kept # << >>
        /\ Settled(s, q)
        /\ ~ctxDone[s]
        /\ receiving[s]

\* C8: SearchAsync with the empty query calls neither CanHandle nor Search,
\* starts no task, sends no batch and no error; it closes resultsCh, waits
\* only for the consumer to take the done signal, sends it once and closes
\* doneCh and errCh.
C8_EmptyQueryShortCircuits ==
    \A s \in Sessions :
        (spc[s] # "idle" /\ query[s] = "") =>
            /\ canHandleCalls[s] = 0
            /\ \A p \in ProviderIds : searchCalls[s][p] = 0 /\ tpc[s][p] = "none"
            /\ cpc[s] = "none"
            /\ delivered[s] = << >>
            /\ errsReceived[s] = {}
            /\ spc[s] \in {"called", "emptySendDone", "returned"}
            /\ spc[s] = "called" =>
                /\ ENABLED SearchAsync(s)
                /\ resultsClosed[s] = 0 /\ errClosed[s] = 0 /\ doneClosed[s] = 0
            /\ spc[s] = "emptySendDone" =>
                /\ resultsClosed[s] = 1 /\ errClosed[s] = 0 /\ doneClosed[s] = 0
                /\ doneReceived[s] = 0
                /\ receiving[s] => ENABLED SignalDoneEmpty(s)
            /\ spc[s] = "returned" =>
                /\ resultsClosed[s] = 1 /\ errClosed[s] = 1 /\ doneClosed[s] = 1
                /\ doneReceived[s] = 1

\* An empty-query session that has run to its end.
C8_Witness ==
    \E s \in Sessions : query[s] = "" /\ spc[s] = "returned" /\ doneReceived[s] = 1

\* The call found no applicable provider for a non-empty query.
NoneApplicable(s) ==
    /\ query[s] # ""
    /\ spc[s] \in {"noneSendDone", "returned"}
    /\ \A p \in ProviderIds : ~Applicable(s, p)

\* Every applicable provider's Search returned an error.
AllFailed(s) ==
    /\ \E p \in ProviderIds : Applicable(s, p)
    /\ \A p \in ProviderIds :
        Applicable(s, p) => taskOut[s][p].returned /\ taskOut[s][p].err

\* C9: a non-empty-query session with no applicable provider calls no Search,
\* delivers no batch and no error, closes resultsCh and errCh and signals done
\* once (then closes doneCh); a session in which every applicable provider
\* failed and that signalled done has delivered an error on errCh.
C9_NoApplicableProvider ==
    \A s \in Sessions :
        /\ NoneApplicable(s) =>
            /\ \A p \in ProviderIds : searchCalls[s][p] = 0
            /\ cpc[s] = "none"
            /\ delivered[s] = << >>
            /\ errsReceived[s] = {}
            /\ resultsClosed[s] = 1 /\ errClosed[s] = 1
            /\ spc[s] = "noneSendDone" =>
                /\ doneReceived[s] = 0 /\ doneClosed[s] = 0
                /\ receiving[s] => ENABLED SignalDoneNoProvider(s)
            /\ spc[s] = "returned" => doneReceived[s] = 1 /\ doneClosed[s] = 1
        /\ (AllFailed(s) /\ doneReceived[s] > 0) => errsReceived[s] # {}

\* A session with no applicable provider that has run to its end.
C9_Witness ==
    \E s \in Sessions : NoneApplicable(s) /\ spc[s] = "returned" /\ doneReceived[s] = 1

\* One task of the session is in a Search that never returns and all the other
\* tasks have finished.
OneHungOthersDone(s) ==
    \E p \in ProviderIds :
        /\ tpc[s][p] = "hung"
        /\ \A q \in ProviderIds \ {p} : tpc[s][q] \in {"none", "done"}

\* C10: if one applicable provider's Search never returns, resultsCh and errCh
\* are still closed and done is still signalled once all the other provider
\* tasks have finished.
C10_ChannelsCloseDespiteHungProvider ==
    \A s \in Sessions :
        OneHungOthersDone(s) ~>
            (resultsClosed[s] = 1 /\ errClosed[s] = 1 /\ doneReceived[s] = 1)

\* C10, amended: while a provider's Search never returns, resultCollector is
\* not closed, and resultsCh and errCh are closed and done is signalled only by
\* the collector's cancellation branch, that is only in a cancelled session.
C10_HungProviderKeepsChannelsOpen ==
    \A s \in Sessions :
        (\E p \in ProviderIds : tpc[s][p] = "hung") =>
            /\ ~collectorClosed[s]
            /\ (resultsClosed[s] > 0 \/ errClosed[s] > 0 \/ doneReceived[s] > 0)
                => (ctxDone[s] /\ cpc[s] \in {"sendDone", "exit"})

\* One Search never returns, another provider's batch was delivered and every
\* other task is over; the caller has not cancelled and still receives, and
\* the channels are open.
C10_Witness ==
    \E s \in Sessions :
        /\ OneHungOthersDone(s)
        /\ \E q \in ProviderIds : tpc[s][q] = "done" /\ Settled(s, q)
        /\ ~ctxDone[s]
        /\ receiving[s]
        /\ cpc[s] = "range"
        /\ resultsClosed[s] = 0 /\ errClosed[s] = 0 /\ doneReceived[s] = 0

\* The keys that the collector of session s kept, over all the batches it took.
KeptKeys(s) == UNION {KeysOf(taskOut[s][p].kept) : p \in ProviderIds}

\* C11: the dedup set of a session is the session's own.  While the collector
\* of a session runs, the set it filters against holds every key the session
\* kept (no other call replaces it), and every key of a batch the collector
\* took was kept from some batch of that session (no key that another
\* session marked suppresses it).
C11_DedupSetIsPerSession ==
    \A s \in Sessions :
        /\ cpc[s] \in {"range", "select"} => KeptKeys(s) \subseteq sentResults
        /\ \A p \in ProviderIds :
            (taskOut[s][p].sent /\ ~taskOut[s][p].err)
                => KeysOf(taskOut[s][p].results) \subseteq KeptKeys(s)

\* The number of places of seq that hold x.
Count(seq, x) == Cardinality({i \in 1..Len(seq) : seq[i] = x})

\* C12: after any sequence of RegisterProvider calls the provider sequence
\* holds exactly the registered providers, each as many times as it was
\* registered, in ascending order of Priority().
C12_ProvidersAreTheRegisteredSorted ==
    /\ Len(providers) = Len(registered)
    /\ \A c \in Candidates : Count(providers, c) = Count(registered, c)
    /\ \A i, j \in 1..Len(providers) :
        i < j => Priority(providers[i]) <= Priority(providers[j])

\* Three registrations, not in ascending order of priority, one provider
\* registered twice.
C12_Witness ==
    /\ Len(registered) = MaxRegistered
    /\ Len(providers) = MaxRegistered
    /\ Priority(registered[1]) > Priority(registered[2])
    /\ \E c \in Candidates : Count(registered, c) = 2

\* The places of seq that hold x.
PlacesOf(seq, x) == {i \in 1..Len(seq) : seq[i] = x}

\* In seq every a stands before every b.
Precedes(seq, a, b) == \A i \in PlacesOf(seq, a) : \A j \in PlacesOf(seq, b) : i < j

\* C13: providers with equal Priority() keep their relative registration
\* order in the provider sequence after every RegisterProvider call.
C13_EqualPrioritiesKeepRegistrationOrder ==
    \A a, b \in Candidates :
        (a # b /\ Priority(a) = Priority(b) /\ Precedes(registered, a, b))
            => Precedes(providers, a, b)

\* The set of elements of seq.
Range(seq) == {seq[i] : i \in 1..Len(seq)}

\* C14: when the registered providers have pairwise distinct priorities, the
\* provider sequence is a function of the set of registered providers alone:
\* each provider stands at the place that the number of registered providers
\* of smaller priority gives it, whatever the order of the registrations.
C14_RegistrationOrderIndependent ==
    (\A i, j \in 1..Len(registered) :
        i # j => Priority(registered[i]) # Priority(registered[j]))
    => \A i \in 1..Len(providers) :
        Cardinality({c \in Range(registered) : Priority(c) < Priority(providers[i])}) = i - 1

\* Three providers of pairwise distinct priorities, registered in descending
\* order of priority.
C14_Witness ==
    /\ Len(registered) = MaxRegistered
    /\ Len(providers) = MaxRegistered
    /\ \A i, j \in 1..Len(registered) :
        i < j => Priority(registered[i]) > Priority(registered[j])

\* C15: ExecuteResult(result) calls Execute once, on the first provider in
\* priority order whose Type() is result.Type, and returns that call's error;
\* if no registered provider has that Type it calls no provider and returns
\* a "no provider found" error.  The provider sequence stays as it was.
C15_ExecuteResultDelegatesToFirstMatch ==
    [][(execution' # execution /\ execution'.op = "ExecuteResult") =>
        LET result == execution'.result
            matching == {i \in 1..Len(providers) : Type(providers[i]) = result.Type}
        IN /\ providers' = providers
           /\ matching = {} =>
                /\ execution'.executed = << >>
                /\ execution'.actions = 0
                /\ execution'.err = "no provider found for result type " \o result.Type
           /\ matching # {} =>
                \E i \in matching :
                    /\ \A j \in matching : i <= j
                    /\ \A j \in matching : Priority(providers[i]) <= Priority(providers[j])
                    /\ execution'.executed = <<providers[i]>>
                    /\ execution'.err = "nil"
                    /\ execution'.actions = IF result.Action THEN 1 ELSE 0
      ]_vars

\* ExecuteResult ran the Action of a result whose type two registered
\* providers of different priorities have, after a provider of another type.
C15_Witness ==
    /\ execution.op = "ExecuteResult"
    /\ execution.actions = 1
    /\ \E i, j \in 1..Len(providers) :
        /\ 1 < i /\ i < j
        /\ Type(providers[1]) # execution.result.Type
        /\ Type(providers[i]) = execution.result.Type
        /\ Type(providers[j]) = execution.result.Type
        /\ Priority(providers[i]) < Priority(providers[j])
        /\ execution.executed = <<providers[i]>>

\* C16: a provider's Execute(result) returns an error and does not invoke
\* result.Action when result.Type is not the provider's Type(); otherwise it
\* returns nil, having invoked result.Action once if it is not nil.
C16_ExecuteChecksResultType ==
    execution.op = "Execute" =>
        LET p == execution.executed[1]
            result == execution.result
        IN IF result.Type # Type(p)
           THEN execution.err # "nil" /\ execution.actions = 0
           ELSE /\ execution.err = "nil"
                /\ execution.actions = IF result.Action THEN 1 ELSE 0

\* C17: a provider whose CanHandle(query) returned false is skipped: no task
\* is started for it, its Search is not called, no error and no result of it
\* reaches the consumer or the collector, and the collector does not wait
\* for it: with no provider accepting the query no collector is started, and
\* resultCollector is closed as soon as the tasks of the accepting providers
\* are over.
C17_RejectingProviderIsSkipped ==
    \A s \in Sessions :
        (query[s] # "" /\ spc[s] \in {"noneSendDone", "returned"}) =>
            /\ \A p \in ProviderIds \ canHandle[s] :
                /\ tpc[s][p] = "none"
                /\ searchCalls[s][p] = 0
                /\ taskOut[s][p] = NoOutcome
                /\ p \notin errsReceived[s]
                /\ ResultsOf(p, uniqueResults[s]) = {}
                /\ ResultsOf(p, DeliveredResults(s)) = {}
            /\ canHandle[s] = {} => cpc[s] = "none"
            /\ (/\ canHandle[s] # {}
                /\ \A p \in canHandle[s] : tpc[s][p] = "done"
                /\ ~collectorClosed[s]
                /\ ~Panicked) => ENABLED WaitAndClose(s)

\* A session in which one provider rejected the query and another accepted
\* it, and which ran to its end with a batch delivered.
C17_Witness ==
    \E s \in Sessions :
        /\ query[s] # ""
        /\ canHandle[s] # {}
        /\ ProviderIds \ canHandle[s] # {}
        /\ delivered[s] # << >>
        /\ collectorClosed[s]
        /\ doneReceived[s] = 1

\* C18: a search is started only when the timer fired with no keystroke in
\* between, and a pause starts one search, for the text present at the pause:
\* every performSearch call is made with the text that was present at a
\* firing of the timer, no text is searched twice, and once the timer has
\* fired and its goroutine has nothing left to do, the last search was for
\* the text the entry holds.
C18_OneSearchPerPause ==
    /\ \A i \in 1..Len(searches) : \E k \in 1..Len(fires) : searches[i] = fires[k]
    /\ \A i, j \in 1..Len(searches) : i # j => searches[i] # searches[j]
    /\ (~timerArmed /\ timerC = 0 /\ loopPc = "range") =>
        /\ searches # << >>
        /\ searches[Len(searches)] = entryText

\* C19: when a session with a non-empty query is over for its consumer (the
\* consumer loop has ended) and no batch and no error was delivered, the
\* window shows "No results found", whichever of the closing of resultsCh
\* and the done signal the consumer observed.  (No other session has been
\* started that could have drawn over it.)
C19_NoResultsFoundIsShown ==
    \A s \in Sessions :
        (/\ query[s] # ""
         /\ spc[s] # "idle"
         /\ ~receiving[s]
         /\ delivered[s] = << >>
         /\ errsReceived[s] = {}
         /\ \A r \in Sessions \ {s} : spc[r] = "idle")
        => resultsList = <<NewLabel("No results found")>>

\* C20: once a result of a session has been shown, an error of a provider
\* that the session's consumer receives leaves the visible list as it is.
C20_ErrorAfterResultsIsSuppressed ==
    [][\A s \in Sessions :
          (anyResults[s] /\ errsReceived'[s] # errsReceived[s])
              => resultsList' = resultsList]_vars

\* C21: when a session is over for its consumer with no batch delivered and
\* at least one provider error received, the window shows the error message
\* and not "No results found".  (No other session has been started that
\* could have drawn over it.)
C21_ErrorMessageStaysAtCompletion ==
    \A s \in Sessions :
        (/\ query[s] # ""
         /\ spc[s] # "idle"
         /\ ~receiving[s]
         /\ delivered[s] = << >>
         /\ errsReceived[s] # {}
         /\ \A r \in Sessions \ {s} : spc[r] = "idle")
        => resultsList = <<NewLabel("Error")>>

\* C22: whenever the consumer rebuilds the visible list because a further
\* batch arrived (rows were there already), the selected index becomes 0,
\* whatever index the user had moved to.
C22_RebuildSelectsFirstItem ==
    [][((\E s \in Sessions : delivered'[s] # delivered[s]) /\ Len(resultItems) > 0)
          => selectedIndex' = 0]_vars

\* C23: launchSelectedResult with rows in the list invokes the Action of the
\* row at selectedIndex once (if it has one) and no other, and hides the
\* window; with no row in the list it invokes nothing and leaves the window
\* shown.  With rows in the list selectedIndex is the index of one of them.
C23_ConfirmInvokesSelectedActionOnce ==
    [][launchCalls' # launchCalls =>
        IF Len(resultItems) > 0
        THEN /\ selectedIndex >= 0 /\ selectedIndex < Len(resultItems)
             /\ LET item == resultItems[selectedIndex + 1]
                IN launched' = IF HasAction(item.result)
                               THEN Append(launched, item) ELSE launched
             /\ ~show'
        ELSE launched' = launched /\ show' = show
      ]_vars

\* The user moved the selection to the second row and confirmed it: its
\* Action was invoked and the window is hidden.
C23_Witness ==
    /\ Len(resultItems) >= 2
    /\ launched = <<resultItems[2]>>
    /\ ~show

\* C24: within a session the results are delivered on resultsCh in order of
\* provider priority: no result of a provider with a larger Priority() is
\* delivered before a result of a provider with a smaller one.
C24_DeliveryInPriorityOrder ==
    \A s \in Sessions :
        LET all == DeliveredResults(s)
        IN \A i, j \in 1..Len(all) :
               i < j => Priority(all[i].Title[1]) <= Priority(all[j].Title[1])

\* C25: cancellation is never reported as an error.  Every value the
\* consumer received from errCh is the error a provider's Search returned,
\* so cancelling a session puts no value of its own on errCh; and the error
\* of a Search that returned after the context was cancelled is dropped:
\* it is neither sent on errCh nor passed on in any other way.
C25_CancellationIsNotAnError ==
    \A s \in Sessions : \A p \in ProviderIds :
        /\ p \in errsReceived[s] => taskOut[s][p].returned /\ taskOut[s][p].err
        /\ (taskOut[s][p].returned /\ taskOut[s][p].cancelled)
              => p \notin errsReceived[s] /\ ~taskOut[s][p].sent

\* A provider's Search returned an error after its session was cancelled,
\* the task has ended, and the consumer, still receiving, got no error.
C25_Witness ==
    \E s \in Sessions : \E p \in ProviderIds :
        /\ taskOut[s][p].returned /\ taskOut[s][p].err /\ taskOut[s][p].cancelled
        /\ tpc[s][p] = "done"
        /\ receiving[s]
        /\ errsReceived[s] = {}

\* C26: in every session each applicable provider gets exactly one task and
\* the others none, and a provider's Search is called at most once: once
\* when the context is not cancelled at the task's first checkpoint, and
\* not at all when it is (the task then ends without an outcome).
C26_OneTaskOneSearchPerProvider ==
    /\ [](\A s \in Sessions : \A p \in ProviderIds :
            /\ searchCalls[s][p] <= 1
            /\ (query[s] # "" /\ spc[s] \in {"noneSendDone", "returned"})
                  => (Applicable(s, p) <=> p \in canHandle[s])
            /\ tpc[s][p] \in {"none", "check1"} => searchCalls[s][p] = 0
            /\ tpc[s][p] \in {"searching", "hung", "sendErr", "sendRes", "panic"}
                  => searchCalls[s][p] = 1
            /\ taskOut[s][p].returned => searchCalls[s][p] = 1)
    /\ [][\A s \in Sessions : \A p \in ProviderIds :
            (tpc[s][p] = "check1" /\ tpc'[s][p] # "check1") =>
                IF ctxDone[s]
                THEN /\ searchCalls'[s][p] = 0
                     /\ tpc'[s][p] = "done"
                     /\ taskOut'[s][p] = NoOutcome
                ELSE /\ searchCalls'[s][p] = 1
                     /\ tpc'[s][p] = "searching"]_vars

\* Of two applicable providers of a session one passed its first checkpoint
\* before the cancellation and called Search once; the other reached it
\* after the cancellation and ended without calling Search.
C26_Witness ==
    \E s \in Sessions : \E p, q \in ProviderIds :
        /\ canHandle[s] = {p, q} /\ p # q
        /\ ctxDone[s]
        /\ searchCalls[s][p] = 1
        /\ tpc[s][q] = "done" /\ searchCalls[s][q] = 0

\* C27: for each batch the collector of a session receives, the batch it
\* emits on resultsCh is exactly the subsequence of the provider's results
\* whose (Type, Path) key the session had not kept before (the first
\* occurrence only of a key repeated in the batch), in the provider's order;
\* every key of it is in the collector's set afterwards, and what is sent on
\* resultsCh is that batch.
C27_EmittedBatchIsTheUnseenSubsequence ==
    [][\A s \in Sessions :
        /\ \A p \in ProviderIds :
            (tpc[s][p] = "sendRes" /\ taskOut'[s][p].sent) =>
                /\ taskOut'[s][p].kept = UniqueOf(taskOut[s][p].results, KeptKeys(s))
                /\ uniqueResults'[s] = taskOut'[s][p].kept
                /\ KeysOf(taskOut'[s][p].kept) \subseteq sentResults'
        /\ delivered'[s] # delivered[s] =>
                delivered'[s] = Append(delivered[s], uniqueResults[s])
      ]_vars

\* C28: the delivery of a provider's batch never waits for another
\* provider's Search.  While the context is not cancelled and the consumer
\* is receiving, a task that holds a non-empty result set can hand it to
\* the collector, or the collector can deliver the batch it holds on
\* resultsCh (after which it takes the next), also while Search calls of
\* other providers are in progress or never return.
C28_DeliveryDoesNotWaitForOtherSearches ==
    \A s \in Sessions :
        (~Panicked /\ ~ctxDone[s] /\ receiving[s]) =>
            /\ \A p \in ProviderIds :
                tpc[s][p] = "sendRes" =>
                    \/ cpc[s] = "range" /\ ENABLED TaskSendResults(s, p)
                    \/ cpc[s] = "select" /\ ENABLED CollectorDeliver(s)
            /\ cpc[s] = "select" => ENABLED CollectorDeliver(s)

\* A batch of one provider was delivered on resultsCh while the Search of
\* another provider of the session is still in progress.
C28_Witness ==
    \E s \in Sessions : \E p, q \in ProviderIds :
        /\ ~ctxDone[s] /\ receiving[s]
        /\ tpc[s][q] = "searching"
        /\ taskOut[s][p].sent /\ taskOut[s][p].kept # << >>
        /\ delivered[s] = <<taskOut[s][p].kept>>

\* C29: SearchAsync (the call, its tasks and its collector) and
\* ExecuteResult leave the provider sequence as it is, same providers in
\* the same order; a step that changes it is a RegisterProvider call, which
\* adds the provider it was given; and no step removes a provider.
C29_OnlyRegisterProviderChangesProviders ==
    [][/\ (\/ spc' # spc \/ tpc' # tpc \/ cpc' # cpc \/ taskOut' # taskOut
           \/ ctxDone' # ctxDone \/ receiving' # receiving
           \/ delivered' # delivered \/ execution' # execution)
            => providers' = providers
       /\ providers' # providers =>
            \E provider \in Candidates :
                /\ registered' = Append(registered, provider)
                /\ \A x \in Candidates :
                    Count(providers', x) =
                        Count(providers, x) + (IF x = provider THEN 1 ELSE 0)
       /\ \A x \in Candidates : Count(providers', x) >= Count(providers, x)
      ]_vars

\* Two providers were registered, a SearchAsync session ran on the Registry
\* and delivered a batch, and a result was executed through ExecuteResult:
\* the provider sequence is the one the registrations left.
C29_Witness ==
    /\ Len(registered) = 2
    /\ providers = <<1, 2>>
    /\ delivered[1] # << >>
    /\ doneReceived[1] > 0
    /\ execution.op = "ExecuteResult" /\ execution.executed # << >>

\* The providers for which the Search call started a goroutine.
SearchApplicable == {p \in ProviderIds : searchTask[p] # "none"}

\* The applicable providers whose p.Search returned an error / results.
SearchFailing == {p \in SearchApplicable : searchOut[p].err}
SearchSucceeding == SearchApplicable \ SearchFailing

\* The concatenations of the result sets of the providers in ps, in any order
\* of the providers.
ConcatenationsOf(ps) ==
    LET someOrder == CHOOSE seq \in [1..Cardinality(ps) -> ps] :
                         \A p \in ps : \E i \in 1..Cardinality(ps) : seq[i] = p
    IN {Flatten([i \in 1..Len(order) |-> searchOut[order[i]].results])
            : order \in PermutationsOf(someOrder)}

\* C30: the synchronous Registry.Search returns an error exactly when no
\* result was collected from any provider and the Search of at least one
\* applicable provider failed; otherwise it returns the concatenation of the
\* result sets of the succeeding applicable providers with a nil error; for
\* the empty query it returns an empty result and a nil error and invokes no
\* provider.  It returns when it has received one message from each
\* applicable provider: not before, and then without waiting for anything.
C30_SearchReturnsErrorOnlyWithoutResults ==
    /\ searchPc = "returned" =>
        IF searchQuery = ""
        THEN /\ searchRet = [results |-> << >>, err |-> FALSE]
             /\ SearchApplicable = {}
        ELSE /\ \A p \in SearchApplicable : searchTask[p] = "done"
             /\ received = Cardinality(SearchApplicable)
             /\ searchRet.err <=>
                    /\ \A p \in SearchSucceeding : searchOut[p].results = << >>
                    /\ SearchFailing # {}
             /\ searchRet.err => searchRet.results = << >>
             /\ ~searchRet.err => searchRet.results \in ConcatenationsOf(SearchSucceeding)
    /\ searchPc = "loop" =>
        /\ received = Cardinality({p \in SearchApplicable : searchTask[p] = "done"})
        /\ (\A p \in SearchApplicable : searchTask[p] = "done") => ENABLED SearchReturn
        /\ (\E p \in SearchApplicable : searchTask[p] # "done") => ~ENABLED SearchReturn
        /\ searchClosed => received = providerCount

\* Search returned results and a nil error although the Search of one of the
\* two applicable providers failed: the other one's results were collected.
C30_Witness ==
    /\ searchPc = "returned"
    /\ Cardinality(SearchApplicable) = 2
    /\ SearchFailing # {}
    /\ ~searchRet.err
    /\ searchRet.results # << >>

\* C31: selectNextResult on the last index selects index 0 and otherwise the
\* next index; selectPreviousResult on index 0 selects the last index and
\* otherwise the previous one; on an empty list both leave selectedIndex as
\* it is; selectResult(index) selects index 0 for a negative index,
\* the last index for an index past the end, and index otherwise.
C31_SelectionWrapsAndClamps ==
    [][LET len == Len(resultItems)
       IN /\ SelectNextResult =>
                selectedIndex' = IF len = 0 THEN selectedIndex
                                 ELSE IF selectedIndex = len - 1 THEN 0
                                 ELSE selectedIndex + 1
          /\ SelectPreviousResult =>
                selectedIndex' = IF len = 0 THEN selectedIndex
                                 ELSE IF selectedIndex = 0 THEN len - 1
                                 ELSE selectedIndex - 1
          /\ \A index \in -1..MaxIndex :
                CallSelectResult(index) =>
                    /\ len = 0 => selectedIndex' = selectedIndex
                    /\ len > 0 =>
                        /\ selectedIndex' >= 0 /\ selectedIndex' < len
                        /\ index < 0 => selectedIndex' = 0
                        /\ index >= len => selectedIndex' = len - 1
                        /\ (index >= 0 /\ index < len) => selectedIndex' = index
      ]_vars

\* With three rows in the list one call took the selection from index 0 to
\* the last index: selectPreviousResult wrapped around, or selectResult was
\* called with the last index or with an index past the end.
C31_Witness ==
    /\ Len(resultItems) = 3
    /\ selectCalls = 1
    /\ selectedIndex = 2

\* C32: a RegisterGlobalHotkey call made while a global hotkey is set
\* unregisters that hotkey, registers the new one and returns: the call
\* terminates.
C32_RegisterGlobalHotkeyReplacesAndReturns ==
    \A t \in HotkeyCallers :
        (hpc[t] = "unregisterInRegister") ~> (hpc[t] = "idle")

\* C33: a goKeyEventCallback call with a key code and modifiers invokes the
\* callback that RegisterKeyCombo registered for them, and invokes none when
\* none is registered or UnregisterKeyCombo removed it.
C33_RegisteredKeyComboIsInvoked ==
    [][\A keyCode \in KeyCodes : \A modifiers \in Modifiers :
        goKeyEventCallback(keyCode, modifiers) =>
            keyEvent'.callback = registeredKeys[keyComboString(keyCode, modifiers)]
      ]_vars

\* C34: no task of a session ever sends on a channel that has been closed
\* (such a send panics), in any interleaving of cancellation, provider tasks
\* and collector.
C34_NoSendOnClosedChannel ==
    \A s \in Sessions : \A p \in ProviderIds : tpc[s][p] # "panic"

\* C35: in every session, on every path of SearchAsync (empty query, no
\* applicable provider, normal completion, cancellation), each of resultsCh,
\* errCh and doneCh is closed at most once, done is signalled at most once,
\* and no batch is delivered on resultsCh after done was signalled.
C35_ChannelsClosedAtMostOnce ==
    /\ [](\A s \in Sessions :
            /\ resultsClosed[s] <= 1
            /\ errClosed[s] <= 1
            /\ doneClosed[s] <= 1
            /\ doneReceived[s] <= 1)
    /\ [][\A s \in Sessions :
            doneReceived[s] > 0 => delivered'[s] = delivered[s]]_vars

\* A session that delivered a batch and was then cancelled has ended on the
\* collector's cancellation branch: each channel closed once, done
\* signalled once.
C35_Witness ==
    \E s \in Sessions :
        /\ ctxDone[s]
        /\ delivered[s] # << >>
        /\ cpc[s] = "exit"
        /\ resultsClosed[s] = 1 /\ errClosed[s] = 1 /\ doneClosed[s] = 1
        /\ doneReceived[s] = 1

\* Every task that the SearchAsync call of session s started has ended: the
\* provider tasks, the collector and the goroutine that waits for the tasks
\* and closes resultCollector.
Terminated(s) ==
    /\ \A p \in ProviderIds : tpc[s][p] \in {"none", "done"}
    /\ cpc[s] \in {"none", "exit"}
    /\ cpc[s] = "exit" => collectorClosed[s]

\* C36: in a session whose Search calls all return, every task SearchAsync
\* started eventually ends, also when the session is cancelled and the
\* consumer has stopped receiving: no task stays blocked on a send to
\* resultsCh, errCh or doneCh.
C36_CancelledSessionTerminates ==
    \A s \in Sessions :
        (spc[s] = "returned" /\ cpc[s] # "none" /\ ctxDone[s] /\ ~receiving[s])
            ~> \/ Terminated(s)
               \/ \E p \in ProviderIds : tpc[s][p] = "hung"
               \/ Panicked

\* The providers of session s whose Search returned results and no error.
Succeeding(s) ==
    {p \in ProviderIds : Applicable(s, p) /\ taskOut[s][p].returned /\ ~taskOut[s][p].err}

\* C37: in a session that is never cancelled, whose Search calls all return
\* and whose consumer keeps receiving, done is eventually signalled, and
\* when it is, every (Type, Path) key of the result set of every succeeding
\* applicable provider has been delivered on resultsCh exactly once.
C37_EveryDistinctKeyIsDelivered ==
    /\ [](\A s \in Sessions :
            (doneReceived[s] > 0 /\ ~ctxDone[s] /\ receiving[s]) =>
                \A p \in Succeeding(s) :
                    \A key \in KeysOf(taskOut[s][p].results) :
                        LET all == DeliveredResults(s)
                        IN Cardinality({i \in 1..Len(all) : ResultKey(all[i]) = key}) = 1)
    /\ \A s \in Sessions :
          (spc[s] = "called") ~>
              \/ doneReceived[s] > 0
              \/ ctxDone[s] \/ ~receiving[s] \/ Panicked
              \/ \E p \in ProviderIds : tpc[s][p] = "hung"

\* C38: every batch delivered on resultsCh is non-empty.  A provider that
\* returned zero results sends nothing to the collector, and a batch of
\* which the filter kept nothing is not sent on resultsCh.
C38_DeliveredBatchesAreNonEmpty ==
    \A s \in Sessions :
        /\ \A i \in 1..Len(delivered[s]) : delivered[s][i] # << >>
        /\ cpc[s] = "select" => uniqueResults[s] # << >>
        /\ \A p \in ProviderIds :
            /\ tpc[s][p] = "sendRes" => taskOut[s][p].results # << >>
            /\ (taskOut[s][p].returned /\ ~taskOut[s][p].err
                    /\ taskOut[s][p].results = << >>) => ~taskOut[s][p].sent

\* One provider returned zero results and sent nothing; of the other
\* provider's batch the filter kept nothing (its keys had been marked), the
\* collector is back at its receive and no batch was delivered.
C38_Witness ==
    \E s \in Sessions : \E p, q \in ProviderIds :
        /\ taskOut[s][p].returned /\ ~taskOut[s][p].err
        /\ taskOut[s][p].results = << >> /\ tpc[s][p] = "done"
        /\ taskOut[s][q].sent /\ taskOut[s][q].results # << >>
        /\ taskOut[s][q].kept = << >>
        /\ cpc[s] = "range"
        /\ delivered[s] = << >>

\* C39: after any sequence of performSearch, batch arrivals,
\* selectNextResult, selectPreviousResult and selectResult, whenever
\* resultItems is non-empty, selectedIndex is the index of one of its items
\* and exactly one item has IsSelected set: the item at selectedIndex.
C39_ExactlyTheSelectedItemIsSelected ==
    Len(resultItems) > 0 =>
        /\ selectedIndex >= 0 /\ selectedIndex < Len(resultItems)
        /\ \A i \in 1..Len(resultItems) :
              resultItems[i] \in isSelected <=> i = selectedIndex + 1


\* The result rows the visible list shows, in the order of the list.
ShownRows == SelectSeq(resultsList, IsRow)

\* C40: whenever the visible list shows result rows, the rows are the items
\* of resultItems in the same order, so that the row at selectedIndex is the
\* item launchSelectedResult activates; after performSearch started a
\* search (also one for the empty query), after a batch and after an error.
C40_ShownRowsAreResultItems ==
    Len(ShownRows) > 0 => ShownRows = resultItems

============================================================================
